---- MODULE Spec2Model ----
(***************************************************************************)
(* Mosaic video pipeline (dlombardi/video-art): the nearest-brightness     *)
(* matcher, the resized-reference cache of the worker module, the `threads`*)
(* worker pool behind Frame, and the frame coordinators of processVideo.   *)
(*                                                                         *)
(* One specification per part of the program:                              *)
(*   SpecMatch  matchNearestImage applied to bounded catalogs and targets  *)
(*   SpecBatch  the extract-then-Promise.all coordinator (worker.ts        *)
(*              207-344) driving the pool, with the worker-side frame jobs *)
(*              and their cache requests                                   *)
(*   SpecMain   the watcher-driven coordinator of main.ts                   *)
(*   SpecReject the watcher-driven coordinator whose processFrame rethrows *)
(*              into .catch(reject) (worker.ts 412-541)                    *)
(*   SpecTile   one tile pass: mean brightness, match, placement           *)
(*   SpecFrame  one frame job of the worker (worker.ts 27-158)             *)
(*   SpecDispatch one frame from Frame.transformAndOutput (part_002 58-80) *)
(*              to the worker's read of its parameters                     *)
(*   SpecScenario the matcher on the two-image example catalog             *)
(*   SpecCatalog the catalog build processSwapImages (main.ts 30-47)       *)
(*   SpecManual the in-flight-set coordinator processFrameQueue (index.ts  *)
(*              173-233)                                                   *)
(*   SpecRun    processVideo as a whole, from resetDirectories to the exit *)
(*              code (main.ts 49-222)                                      *)
(*   SpecPool   Frame's static pool (part_002 14-80) under calls of        *)
(*              initializeWorkerPool, transformAndOutput and               *)
(*              terminateWorkerPool in any order                           *)
(*   SpecSerial the serial frame-queue coordinator processFrameQueue       *)
(*              (part_001 198-266); SpecSerialFair adds that awaited       *)
(*              promises settle                                            *)
(***************************************************************************)
EXTENDS Integers, Sequences, FiniteSets, TLC

\* ------------------------------------------------------------------ bounds

\* Brightness values are 0..MaxBrightness (the code's means lie in [0,255]).
MaxBrightness == 4
\* Longest catalog (imageMapArray) enumerated.
MaxCatalog == 3
\* os.cpus().length ranges over 1..MaxCpu.
MaxCpu == 2
\* Most frame files the frame source extracts in one run.
MaxFrames == 3
\* Tiles (cache requests) of one frame job.
TilesPerFrame == 1
\* Most frame files the frame source writes while the watcher runs.
MaxWatchedFrames == 2
\* Most file-watch callbacks on frame files in flight or turned into a job
\* (waiting for stat, or dispatched by the watcher).
MaxWatchEvents == 3
\* Most bytes of an enumerated grayscale buffer.
MaxTileBytes == 3
\* Frame widths and heights are 0..MaxDim pixels, or missing from the metadata.
MaxDim == 3
\* Tile sizes are 1..MaxTileSize pixels.
MaxTileSize == 2
\* Most reference images in the swap-image directory.
MaxSwapImages == 3
\* Most calls of Frame's static methods made in one sequence of calls.
MaxApiCalls == 4
\* initializeWorkerPool is called without a concurrency or with 1..MaxConcurrencyArg.
MaxConcurrencyArg == 3

\* ------------------------------------------------------------- core values

Brightness == 0..MaxBrightness

\* JavaScript's undefined / null, as values outside the brightness range.
UNDEFINED == "undefined"
NULL == 0 - 1

\* The largest value of a Uint8Array element: pixel intensities and their
\* means lie in 0..MaxByte.
MaxByte == 255

\* `let smallestDelta = Infinity`: greater than every delta of two brightnesses.
Infinity == MaxByte + 1

\* The difference itself, its sign kept.
SignedDifference(x) == x

\* Math.abs
Abs(x) == IF x < 0 THEN 0 - x ELSE x
Min(a, b) == IF a < b THEN a ELSE b
Max(a, b) == IF a > b THEN a ELSE b

VARIABLES
    \* --- matcher (helpers.ts/matchNearestImage.ts, part_001 VideoFrame)
    imageMapArray,        \* the catalog: sequence of <<brightness, path>>
    meanTileBrightness,   \* the target brightness
    matchPc,              \* "call" | "done"
    matchResult,          \* result of matchNearestImage (array form)
    mapMatchResult,       \* result of VideoFrame.matchNearestImage (Map form)
    \* --- the pool behind Frame (part_002) and the jobs queued on it
    cpuCount,             \* os.cpus().length
    workerPool,           \* Frame.workerPool: NullPool or [concurrency, size]
    poolTerminated,       \* pool.terminate() has ended the pool's workers
    taskQueue,            \* the pool's queued tasks (job ids), oldest first
    runningTasks,         \* worker -> job ids of its runningTasks
    jobs,                 \* every dispatched processFrame, in dispatch order
    \* --- worker module state (worker.ts 11-25), one instance per worker thread
    imageCache,           \* worker -> cache key -> stored buffer (0: no entry)
    resizeCalls,          \* cache key -> resizes started in this run
    getDone,              \* cache key -> some get for it has returned
    \* --- coordinator (processVideo)
    coordPc,              \* where processVideo and its handlers stand
    frameNames,           \* the extracted .png frames, sorted
    successCount,
    failedFrames,         \* sequence of frame names, in push order
    summaryPrinted,       \* the "Processing Summary" block was logged
    \* --- watcher-driven coordinators (main.ts, worker.ts 412-541)
    revision,             \* "main" | "reject": which processVideo runs
    files,                \* FRAMES_DIR: file name -> "absent" | "empty" | "full"
    ffmpeg,               \* frame source: "running" | "ended" | "error"
    watcherOpen,          \* fs.watch handle not yet closed
    statPending,          \* frame name -> watch callbacks awaiting fs.promises.stat
    processedFrames,      \* Set<string>
    frameCount,
    awaited,              \* job ids Promise.allSettled was called with
    termThen,             \* what follows terminateWorkerPool: "resolve" | "reject"
    completion,           \* processingComplete: "pending" | "resolved" | "rejected"
    \* --- the stages of one job, each under its own specification
    tileJob,              \* one pass of the tile try block (worker.ts 100-116)
    frameJob,             \* one processFrame execution on a worker (worker.ts 27-158)
    catalogBuild,         \* one processSwapImages call (main.ts 30-47)
    \* --- the in-flight-set coordinator (index.ts 173-219)
    manual,               \* activeProcessing and the processFrameQueue calls
    \* --- processVideo as a whole and the top-level call (main.ts 49-222)
    run,                  \* the stage processVideo is in, and the exit code
    \* --- Frame's static pool under calls in any order (part_002 14-80)
    api,                  \* the calls made so far and what the last one saw
    \* --- the serial frame-queue coordinator (part_001 198-266)
    serial                \* frameQueue, isProcessing, ffmpegComplete, the loop

matchVars == <<imageMapArray, meanTileBrightness, matchPc, matchResult, mapMatchResult>>
poolVars == <<cpuCount, workerPool, poolTerminated, taskQueue, runningTasks, jobs>>
cacheVars == <<imageCache, resizeCalls, getDone>>
tallyVars == <<successCount, failedFrames, summaryPrinted>>
coordVars == <<coordPc, frameNames>>
watchVars == <<revision, files, ffmpeg, watcherOpen, statPending, processedFrames,
               frameCount, awaited, termThen, completion>>

stageVars == <<tileJob, frameJob, catalogBuild, manual, run, api, serial>>

vars == <<matchVars, poolVars, cacheVars, tallyVars, coordVars, watchVars, stageVars>>

\* ----------------------------------------------------------------- matcher

\* The path the catalog builder gives the i-th inserted reference image:
\* image out paths are distinct file names.
PathOf(i) == <<"img1.png", "img2.png", "img3.png", "img4.png", "img5.png">>[i]

\* Catalogs as Array.from(Map.entries()) yields them: insertion order,
\* distinct brightness keys, distinct paths.
KeySeqs(n) == {s \in [1..n -> Brightness] : \A i, j \in 1..n : i # j => s[i] # s[j]}

Catalogs == UNION {{[i \in 1..n |-> <<ks[i], PathOf(i)>>] : ks \in KeySeqs(n)} : n \in 0..MaxCatalog}

\* `if (delta < smallestDelta)` with the brighter-only restriction of a wrong variant.
CloserBrighterOnly(brightness, target, delta, smallest) == brightness > target /\ delta < smallest

\* `if (delta <= smallestDelta)`: the last entry of a tie would win.
CloserOrEqual(brightness, target, delta, smallest) == delta <= smallest

\* `if (delta < smallestDelta)`
Closer(brightness, target, delta, smallest) == delta < smallest

\* The scan loop of matchNearestImage: <<nearestKey, smallestDelta>> after
\* the first n entries.
RECURSIVE ScanNearest(_, _, _)
ScanNearest(target, arr, n) ==
    IF n = 0 THEN <<NULL, Infinity>>
    ELSE LET prev == ScanNearest(target, arr, n - 1)
             brightness == arr[n][1]
             delta == Abs(brightness - target)
         IN  IF Closer(brightness, target, delta, prev[2])
             THEN <<brightness, delta>>
             ELSE prev

\* imageMapArray.find(([brightness]) => brightness === nearestKey)
FindEntry(arr, key) ==
    IF \E i \in 1..Len(arr) : arr[i][1] = key
    THEN LET i == CHOOSE i \in 1..Len(arr) :
                      /\ arr[i][1] = key
                      /\ \A j \in 1..(i - 1) : arr[j][1] # key
         IN  <<arr[i]>>
    ELSE <<>>

\* export function matchNearestImage(meanTileBrightness, imageMapArray)
matchNearestImage(target, arr) ==
    LET nearestKey == ScanNearest(target, arr, Len(arr))[1]
    IN  IF nearestKey = NULL THEN UNDEFINED
        ELSE LET match == FindEntry(arr, nearestKey)
             IN  IF match = <<>> THEN UNDEFINED ELSE match[1][2]

\* this.imageMap.get(key): the value of the entry whose key is `key`.
MapGet(entries, key) ==
    IF \E i \in 1..Len(entries) : entries[i][1] = key
    THEN entries[CHOOSE i \in 1..Len(entries) : entries[i][1] = key][2]
    ELSE UNDEFINED

\* VideoFrame.matchNearestImage: the same scan over this.imageMap.entries(),
\* then this.imageMap.get(nearestKey).
VideoFrame_matchNearestImage(target, entries) ==
    LET nearestKey == ScanNearest(target, entries, Len(entries))[1]
    IN  IF nearestKey = NULL THEN UNDEFINED ELSE MapGet(entries, nearestKey)

\* No tile pass, frame job or catalog build is under test.
IdleStages ==
    /\ tileJob = [pc |-> "off"]
    /\ frameJob = [pc |-> "off"]
    /\ catalogBuild = [pc |-> "off"]
    /\ manual = [pc |-> "off"]
    /\ run = [pc |-> "off"]
    /\ api = [pc |-> "off"]
    /\ serial = [pc |-> "off"]

\* The matcher is not under test: its variables rest.
IdleMatch ==
    /\ imageMapArray = <<>>
    /\ meanTileBrightness = 0
    /\ matchPc = "off"
    /\ matchResult = UNDEFINED
    /\ mapMatchResult = UNDEFINED

\* ------------------------------------------------- pool, workers and cache

Workers == 1..MaxCpu

\* `private static workerPool ... | null = null`
NullPool == [concurrency |-> 0, size |-> 0]

\* TILE_SIZE: 140 in the queued payload.
TILE_SIZE == 140

\* const cacheKey = `${framePath}:${width}x${height}`: one key per
\* (path, width, height); width and height are numbers, so the text is
\* injective in the triple.
CacheKey(path, width, height) == <<path, width, height>>

CacheKeys == {CacheKey(PathOf(i), TILE_SIZE, TILE_SIZE) : i \in 1..2}

FrameName(i) == <<"frame_0001.png", "frame_0002.png", "frame_0003.png", "frame_0004.png", "frame_0005.png">>[i]

\* const optimalConcurrency = concurrency || Math.min(4, Math.max(2, cpuCount - 2))
OptimalConcurrency(concurrency, cpus) ==
    IF concurrency # 0 THEN concurrency ELSE Min(4, Max(2, cpus - 2))

\* Pool(() => spawn(new Worker("./worker")), { name, concurrency }): the
\* options give no `size`, so the pool spawns the library's default number
\* of worker threads, os.cpus().length; `concurrency` is the number of tasks
\* one worker thread runs at a time.
Pool(concurrency, cpus) == [concurrency |-> concurrency, size |-> cpus]

\* A pool is constructed whether or not one exists.
initializeWorkerPoolAnew(pool, concurrency, cpus) ==
    Pool(OptimalConcurrency(concurrency, cpus), cpus)

\* static async initializeWorkerPool(concurrency?)
initializeWorkerPool(pool, concurrency, cpus) ==
    IF pool = NullPool THEN Pool(OptimalConcurrency(concurrency, cpus), cpus) ELSE pool

\* The catalog processVideo holds (swapImageMap) once processSwapImages has
\* returned; empty where the catalog build is not part of the run modelled.
SwapImageMap ==
    IF catalogBuild.pc = "done" /\ catalogBuild.outcome = "ok"
    THEN catalogBuild.swapImageMap ELSE <<>>

\* The entries taken last to first.
ArrayFromEntriesReversed(entries) ==
    [i \in 1..Len(entries) |-> entries[Len(entries) + 1 - i]]

\* Array.from(this.imageMap.entries()): the (brightness, path) pairs in the
\* Map's insertion order.
ArrayFromEntries(entries) ==
    [i \in 1..Len(entries) |-> <<entries[i][1], entries[i][2]>>]

\* A freshly dispatched job: the coordinator's processFrame of one frame,
\* with the payload's imageMapArray.
NewJob(frame, state, tiles) ==
    [frame |-> frame, state |-> state, worker |-> 0, via |-> "queue",
     tilesLeft |-> tiles, pc |-> "tile", key |-> <<>>, buffer |-> 0,
     late |-> FALSE, returned |-> <<>>,
     imageMapArray |-> ArrayFromEntries(SwapImageMap)]

JobIds == 1..Len(jobs)
RunningJobs == {j \in JobIds : jobs[j].state = "running"}
Settled(j) == jobs[j].state \in {"ok", "failed"}

\* The pool's findIdlingWorker: the first worker running fewer tasks than
\* the pool's per-worker concurrency, 0 when every worker is full.
IdlingWorker ==
    LET idle == {w \in 1..workerPool.size : Cardinality(runningTasks[w]) < workerPool.concurrency}
    IN  IF idle = {} THEN 0 ELSE CHOOSE w \in idle : \A v \in idle : w <= v

\* Frame.transformAndOutput up to `await Frame.workerPool.queue(...)`: the
\* jobs and task queue after the frames in `names` were dispatched in order.
RECURSIVE QueueAll(_, _, _)
QueueAll(names, js, queue) ==
    IF names = <<>> THEN <<js, queue>>
    ELSE QueueAll(Tail(names), Append(js, NewJob(Head(names), "queued", TilesPerFrame)),
                  Append(queue, Len(js) + 1))

\* The pool takes the oldest queued task and runs it on the idling worker.
PoolRunTask ==
    /\ workerPool # NullPool
    /\ ~poolTerminated
    /\ taskQueue # <<>>
    /\ IdlingWorker # 0
    /\ LET j == Head(taskQueue)
           w == IdlingWorker
       IN  /\ taskQueue' = Tail(taskQueue)
           /\ runningTasks' = [runningTasks EXCEPT ![w] = @ \cup {j}]
           /\ jobs' = [jobs EXCEPT ![j].state = "running", ![j].worker = w]
    /\ UNCHANGED <<cpuCount, workerPool, poolTerminated>>
    /\ UNCHANGED <<stageVars, matchVars, cacheVars, tallyVars, coordVars, watchVars>>

\* The has() test left out: every get takes the entry as it is.
CacheNeverMisses(cache, key) == FALSE

\* if (!imageCache.has(cacheKey))
CacheMisses(cache, key) == cache[key] = 0

\* getCachedResizedImage, from the call to its first await or, on a hit, to
\* its return: a miss starts sharp(...).resize(...).toBuffer().
GetCachedResizedImage(j, key) ==
    /\ j \in RunningJobs
    /\ jobs[j].pc = "tile"
    /\ jobs[j].tilesLeft > 0
    /\ LET w == jobs[j].worker
       IN  IF CacheMisses(imageCache[w], key)
           THEN /\ resizeCalls' = [resizeCalls EXCEPT ![key] = @ + 1]
                /\ jobs' = [jobs EXCEPT ![j].pc = "resizing", ![j].key = key,
                                        ![j].buffer = resizeCalls[key] + 1,
                                        ![j].late = getDone[key]]
                /\ UNCHANGED getDone
           ELSE /\ jobs' = [jobs EXCEPT ![j].tilesLeft = @ - 1, ![j].key = key,
                                        ![j].late = getDone[key],
                                        ![j].returned = <<key, imageCache[w][key]>>]
                /\ getDone' = [getDone EXCEPT ![key] = TRUE]
                /\ UNCHANGED resizeCalls
    /\ UNCHANGED imageCache
    /\ UNCHANGED <<cpuCount, workerPool, poolTerminated, taskQueue, runningTasks>>
    /\ UNCHANGED <<stageVars, matchVars, tallyVars, coordVars, watchVars>>

\* The resize resolves: imageCache.set(cacheKey, resizedBuffer), then
\* return imageCache.get(cacheKey)!, and the tile's placement is pushed.
ResizeResolves(j) ==
    /\ j \in RunningJobs
    /\ jobs[j].pc = "resizing"
    /\ LET w == jobs[j].worker
           key == jobs[j].key
       IN  /\ imageCache' = [imageCache EXCEPT ![w][key] = jobs[j].buffer]
           /\ jobs' = [jobs EXCEPT ![j].pc = "tile", ![j].tilesLeft = @ - 1,
                                   ![j].returned = <<key, jobs[j].buffer>>]
           /\ getDone' = [getDone EXCEPT ![key] = TRUE]
    /\ UNCHANGED resizeCalls
    /\ UNCHANGED <<cpuCount, workerPool, poolTerminated, taskQueue, runningTasks>>
    /\ UNCHANGED <<stageVars, matchVars, tallyVars, coordVars, watchVars>>

\* The resize rejects: the tile's catch logs it, nothing is stored and the
\* loop moves to the next tile.
ResizeRejects(j) ==
    /\ j \in RunningJobs
    /\ jobs[j].pc = "resizing"
    /\ jobs' = [jobs EXCEPT ![j].pc = "tile", ![j].tilesLeft = @ - 1]
    /\ UNCHANGED <<cpuCount, workerPool, poolTerminated, taskQueue, runningTasks>>
    /\ UNCHANGED <<stageVars, matchVars, cacheVars, tallyVars, coordVars, watchVars>>

\* The worker's processFrame can end: with a throw before the tile loop
\* (readFile, metadata, missing dimensions) or after it (toFile), or with a
\* return once every tile is done and the frame is written.
CanEnd(j, ok) ==
    /\ j \in RunningJobs
    /\ jobs[j].pc = "tile"
    /\ IF ok THEN jobs[j].tilesLeft = 0 ELSE jobs[j].tilesLeft \in {0, TilesPerFrame}

\* The pool removes the ended task from its worker's runningTasks.
TaskEnded(j) == [runningTasks EXCEPT ![jobs[j].worker] = @ \ {j}]

\* The directory FRAMES_DIR: the frames the source writes, and one file
\* that is no frame and lies there from the start.
WatchedFrames == {FrameName(i) : i \in 1..MaxWatchedFrames}
StrayFile == ".DS_Store"
DirNames == WatchedFrames \cup {StrayFile}

\* The watcher-driven coordinators are not under test: their variables rest.
IdleWatch ==
    /\ revision = "none"
    /\ files = [n \in DirNames |-> "absent"]
    /\ ffmpeg = "off"
    /\ watcherOpen = FALSE
    /\ statPending = [n \in WatchedFrames |-> 0]
    /\ processedFrames = {}
    /\ frameCount = 0
    /\ awaited = {}
    /\ termThen = "resolve"
    /\ completion = "pending"

\* ---------------------------------------------- the Promise.all coordinator

\* The run is not under test: its variables rest.
IdleRun ==
    /\ cpuCount = 1
    /\ workerPool = NullPool
    /\ poolTerminated = FALSE
    /\ taskQueue = <<>>
    /\ runningTasks = [w \in Workers |-> {}]
    /\ jobs = <<>>
    /\ imageCache = [w \in Workers |-> [k \in CacheKeys |-> 0]]
    /\ resizeCalls = [k \in CacheKeys |-> 0]
    /\ getDone = [k \in CacheKeys |-> FALSE]
    /\ coordPc = "off"
    /\ frameNames = <<>>
    /\ successCount = 0
    /\ failedFrames = <<>>
    /\ summaryPrinted = FALSE
    /\ IdleWatch

\* processVideo after step 1: the frames are extracted and listed.
InitBatch ==
    /\ IdleMatch
    /\ cpuCount \in 1..MaxCpu
    /\ workerPool = NullPool
    /\ poolTerminated = FALSE
    /\ taskQueue = <<>>
    /\ runningTasks = [w \in Workers |-> {}]
    /\ jobs = <<>>
    /\ imageCache = [w \in Workers |-> [k \in CacheKeys |-> 0]]
    /\ resizeCalls = [k \in CacheKeys |-> 0]
    /\ getDone = [k \in CacheKeys |-> FALSE]
    /\ coordPc = "init"
    /\ \E n \in 0..MaxFrames : frameNames = [i \in 1..n |-> FrameName(i)]
    /\ successCount = 0
    /\ failedFrames = <<>>
    /\ summaryPrinted = FALSE
    /\ IdleWatch
    /\ IdleStages

\* await Frame.initializeWorkerPool()
BatchInitializePool ==
    /\ coordPc = "init"
    /\ workerPool' = initializeWorkerPool(workerPool, 0, cpuCount)
    /\ coordPc' = "dispatch"
    /\ UNCHANGED <<cpuCount, poolTerminated, taskQueue, runningTasks, jobs, frameNames>>
    /\ UNCHANGED <<stageVars, matchVars, cacheVars, tallyVars, watchVars>>

\* Promise.all(frameNames.map(async frameName => ...)): every callback runs
\* to its await of transformAndOutput, which queues the frame on the pool.
BatchDispatchAll ==
    /\ coordPc = "dispatch"
    /\ LET q == QueueAll(frameNames, jobs, taskQueue)
       IN  /\ jobs' = q[1]
           /\ taskQueue' = q[2]
    /\ coordPc' = "awaitAll"
    /\ UNCHANGED <<cpuCount, workerPool, poolTerminated, runningTasks, frameNames>>
    /\ UNCHANGED <<stageVars, matchVars, cacheVars, tallyVars, watchVars>>

\* A job ends and its map callback resumes: successCount++ after a return,
\* failedFrames.push(frameName) in the catch after a throw.
BatchJobEnds(j, ok) ==
    /\ coordPc = "awaitAll"
    /\ CanEnd(j, ok)
    /\ runningTasks' = TaskEnded(j)
    /\ jobs' = [jobs EXCEPT ![j].state = IF ok THEN "ok" ELSE "failed"]
    /\ successCount' = IF ok THEN successCount + 1 ELSE successCount
    /\ failedFrames' = IF ok THEN failedFrames ELSE Append(failedFrames, jobs[j].frame)
    /\ UNCHANGED <<cpuCount, workerPool, poolTerminated, taskQueue, summaryPrinted>>
    /\ UNCHANGED <<stageVars, matchVars, cacheVars, coordVars, watchVars>>

\* Promise.all resolves (no callback rejects), the summary is logged, and the
\* finally block logs that worker cleanup is skipped: no terminate call.
BatchSummary ==
    /\ coordPc = "awaitAll"
    /\ \A j \in JobIds : Settled(j)
    /\ summaryPrinted' = TRUE
    /\ coordPc' = "summary"
    /\ UNCHANGED <<successCount, failedFrames, frameNames>>
    /\ UNCHANGED <<stageVars, matchVars, poolVars, cacheVars, watchVars>>

NextBatch ==
    \/ BatchInitializePool
    \/ BatchDispatchAll
    \/ PoolRunTask
    \/ \E j \in JobIds, k \in CacheKeys : GetCachedResizedImage(j, k)
    \/ \E j \in JobIds : ResizeResolves(j)
    \/ \E j \in JobIds : ResizeRejects(j)
    \/ \E j \in JobIds, ok \in BOOLEAN : BatchJobEnds(j, ok)
    \/ BatchSummary

SpecBatch == InitBatch /\ [][NextBatch]_vars

\* ------------------------------------------- the watcher-driven coordinators

\* fileName.endsWith('.png')
EndsWithPng(name) == name \in {FrameName(i) : i \in 1..5}

Resolve(c) == IF c = "pending" THEN "resolved" ELSE c
Reject(c) == IF c = "pending" THEN "rejected" ELSE c

JobsOf(js, name) == {j \in 1..Len(js) : js[j].frame = name}

\* What processFrame reads and writes on the main thread.
Tally ==
    [jobs |-> jobs, taskQueue |-> taskQueue, successCount |-> successCount,
     failedFrames |-> failedFrames, frameCount |-> frameCount,
     processedFrames |-> processedFrames, completion |-> completion]

ApplyTally(st) ==
    /\ jobs' = st.jobs
    /\ taskQueue' = st.taskQueue
    /\ successCount' = st.successCount
    /\ failedFrames' = st.failedFrames
    /\ frameCount' = st.frameCount
    /\ processedFrames' = st.processedFrames

\* processFrame's catch rethrowing into .catch(reject), whichever revision runs.
FrameFailedRejects(st, name) ==
    [st EXCEPT !.processedFrames = @ \cup {name}, !.completion = Reject(@)]

\* processFrame's catch and finally after transformAndOutput threw.
\* main.ts: failedFrames.push, no rethrow; finally frameCount++ and
\* processedFrames.add.  worker.ts 447-452: rethrow into .catch(reject);
\* finally processedFrames.add.
FrameFailed(st, name) ==
    IF revision = "main"
    THEN [st EXCEPT !.failedFrames = Append(@, name), !.frameCount = @ + 1,
                    !.processedFrames = @ \cup {name}]
    ELSE [st EXCEPT !.processedFrames = @ \cup {name}, !.completion = Reject(@)]

\* processFrame after transformAndOutput returned.  main.ts: successCount++;
\* finally frameCount++ and processedFrames.add.  worker.ts 438-451:
\* frameCount++; finally processedFrames.add.
FrameSucceeded(st, name) ==
    IF revision = "main"
    THEN [st EXCEPT !.successCount = @ + 1, !.frameCount = @ + 1,
                    !.processedFrames = @ \cup {name}]
    ELSE [st EXCEPT !.frameCount = @ + 1, !.processedFrames = @ \cup {name}]

\* pool.terminate() was called: the pool is closing and its queue() throws.
PoolClosing == coordPc = "terminate"

\* The pool is taken to exist.
PoolAssumed(pool) == FALSE

\* if (!Frame.workerPool) throw new Error('Worker pool not initialized. ...')
NoPool(pool) == pool = NullPool

\* processFrame(framePath) up to its await: Frame.transformAndOutput throws
\* when no pool exists or the pool refuses the task, otherwise it queues the
\* frame on the pool.
ProcessFrame(st, name, via) ==
    IF NoPool(workerPool) \/ PoolClosing
    THEN FrameFailed([st EXCEPT !.jobs = Append(@, [NewJob(name, "failed", 0) EXCEPT !.via = via])], name)
    ELSE [st EXCEPT !.jobs = Append(@, [NewJob(name, "queued", 0) EXCEPT !.via = via]),
                    !.taskQueue = Append(@, Len(st.jobs) + 1)]

\* The rescan dispatches nothing.
RescanNothing(name, processed) == FALSE

\* if (!processedFrames.has(frame) && frame.endsWith('.png'))
RescanTakes(name, processed) == name \notin processed /\ EndsWithPng(name)

\* The directory listing of the 'end' handler, in name order.
Readdir == [i \in 1..MaxWatchedFrames |-> FrameName(i)] \o <<StrayFile>>

\* for (const frame of remainingFrames) { ... processFrame(frame) ... }
RECURSIVE RescanLoop(_, _)
RescanLoop(st, names) ==
    IF names = <<>> THEN st
    ELSE LET name == Head(names)
         IN  IF files[name] # "absent" /\ RescanTakes(name, st.processedFrames)
             THEN RescanLoop(ProcessFrame(st, name, "rescan"), Tail(names))
             ELSE RescanLoop(st, Tail(names))

PoolIdle == taskQueue = <<>> /\ \A w \in Workers : runningTasks[w] = {}

InitWatch(rev) ==
    /\ IdleMatch
    /\ cpuCount \in 1..MaxCpu
    /\ workerPool = initializeWorkerPool(NullPool, 0, cpuCount)
    /\ poolTerminated = FALSE
    /\ taskQueue = <<>>
    /\ runningTasks = [w \in Workers |-> {}]
    /\ jobs = <<>>
    /\ imageCache = [w \in Workers |-> [k \in CacheKeys |-> 0]]
    /\ resizeCalls = [k \in CacheKeys |-> 0]
    /\ getDone = [k \in CacheKeys |-> FALSE]
    /\ coordPc = "extracting"
    /\ frameNames = <<>>
    /\ successCount = 0
    /\ failedFrames = <<>>
    /\ summaryPrinted = FALSE
    /\ revision = rev
    /\ files = [n \in DirNames |-> IF n = StrayFile THEN "full" ELSE "absent"]
    /\ ffmpeg = "running"
    /\ watcherOpen = TRUE
    /\ statPending = [n \in WatchedFrames |-> 0]
    /\ processedFrames = {}
    /\ frameCount = 0
    /\ awaited = {}
    /\ termThen = "resolve"
    /\ completion = "pending"
    /\ IdleStages

\* The frame source creates the next frame file, still empty.
FfmpegCreatesFrame(i) ==
    /\ ffmpeg = "running"
    /\ files[FrameName(i)] = "absent"
    /\ IF i = 1 THEN TRUE ELSE files[FrameName(i - 1)] = "full"
    /\ files' = [files EXCEPT ![FrameName(i)] = "empty"]
    /\ UNCHANGED <<revision, ffmpeg, watcherOpen, statPending, processedFrames,
                   frameCount, awaited, termThen, completion>>
    /\ UNCHANGED <<stageVars, matchVars, poolVars, cacheVars, tallyVars, coordVars>>

\* The frame source writes the frame's bytes.
FfmpegFillsFrame(i) ==
    /\ ffmpeg = "running"
    /\ files[FrameName(i)] = "empty"
    /\ files' = [files EXCEPT ![FrameName(i)] = "full"]
    /\ UNCHANGED <<revision, ffmpeg, watcherOpen, statPending, processedFrames,
                   frameCount, awaited, termThen, completion>>
    /\ UNCHANGED <<stageVars, matchVars, poolVars, cacheVars, tallyVars, coordVars>>

RECURSIVE SumPending(_)
SumPending(names) ==
    IF names = {} THEN 0
    ELSE LET n == CHOOSE n \in names : TRUE
         IN  statPending[n] + SumPending(names \ {n})

\* Watch callbacks on frame files that await stat or became a job.
WatchEventsTaken ==
    SumPending(WatchedFrames) + Cardinality({j \in JobIds : jobs[j].via = "watch"})

\* The fs.watch callback, from an event for `name` to its await of stat.
WatchEvent(name) ==
    /\ watcherOpen
    /\ files[name] # "absent"
    /\ IF EndsWithPng(name) /\ name \notin processedFrames
       THEN /\ WatchEventsTaken < MaxWatchEvents
            /\ statPending' = [statPending EXCEPT ![name] = @ + 1]
       ELSE UNCHANGED statPending
    /\ UNCHANGED <<revision, files, ffmpeg, watcherOpen, processedFrames,
                   frameCount, awaited, termThen, completion>>
    /\ UNCHANGED <<stageVars, matchVars, poolVars, cacheVars, tallyVars, coordVars>>

\* stat resolves: if (size > 0) processFrame(fileName) and push its promise.
StatResolves(name) ==
    /\ statPending[name] > 0
    /\ statPending' = [statPending EXCEPT ![name] = @ - 1]
    /\ LET st == IF files[name] = "full" THEN ProcessFrame(Tally, name, "watch") ELSE Tally
       IN  /\ ApplyTally(st)
           /\ completion' = st.completion
    /\ UNCHANGED <<revision, files, ffmpeg, watcherOpen, awaited, termThen>>
    /\ UNCHANGED <<cpuCount, workerPool, poolTerminated, runningTasks, summaryPrinted>>
    /\ UNCHANGED <<stageVars, matchVars, cacheVars, coordVars>>

\* stat rejects: the empty catch drops the event.
StatRejects(name) ==
    /\ statPending[name] > 0
    /\ statPending' = [statPending EXCEPT ![name] = @ - 1]
    /\ UNCHANGED <<revision, files, ffmpeg, watcherOpen, processedFrames,
                   frameCount, awaited, termThen, completion>>
    /\ UNCHANGED <<stageVars, matchVars, poolVars, cacheVars, tallyVars, coordVars>>

\* What follows `await Frame.terminateWorkerPool()` in the handlers: after
\* the drain, the summary (main.ts) and resolve(); on the error paths,
\* reject(err).  `c` is processingComplete before it.
AfterTerminate(then, c) ==
    /\ coordPc' = "finished"
    /\ summaryPrinted' = (summaryPrinted \/ (then = "resolve" /\ revision = "main"))
    /\ completion' = IF then = "resolve" THEN Resolve(c) ELSE Reject(c)

\* static async terminateWorkerPool(), entered with `then` to follow it: a
\* null handle returns at once, otherwise await Frame.workerPool.completed().
EnterTerminate(then) ==
    /\ termThen' = then
    /\ IF workerPool = NullPool
       THEN AfterTerminate(then, completion)
       ELSE /\ coordPc' = "completed"
            /\ UNCHANGED <<summaryPrinted, completion>>

\* ffmpeg 'end': every frame is written; the handler awaits readdir.
FfmpegEnds ==
    /\ ffmpeg = "running"
    /\ \A n \in WatchedFrames : files[n] # "empty"
    /\ ffmpeg' = "ended"
    /\ coordPc' = "readdir"
    /\ UNCHANGED <<revision, files, watcherOpen, statPending, processedFrames,
                   frameCount, awaited, termThen, completion, frameNames>>
    /\ UNCHANGED <<stageVars, matchVars, poolVars, cacheVars, tallyVars>>

\* ffmpeg 'error': watcher.close(); await Frame.terminateWorkerPool(); reject(err).
FfmpegErrors ==
    /\ ffmpeg = "running"
    /\ ffmpeg' = "error"
    /\ watcherOpen' = FALSE
    /\ EnterTerminate("reject")
    /\ UNCHANGED <<revision, files, statPending, processedFrames, frameCount, awaited,
                   frameNames, successCount, failedFrames>>
    /\ UNCHANGED <<stageVars, matchVars, poolVars, cacheVars>>

\* readdir resolves: the rescan loop, then Promise.allSettled over the
\* promises pushed so far.
EndRescan ==
    /\ coordPc = "readdir"
    /\ LET st == RescanLoop(Tally, Readdir)
       IN  /\ ApplyTally(st)
           /\ completion' = st.completion
           /\ awaited' = 1..Len(st.jobs)
    /\ coordPc' = "allSettled"
    /\ UNCHANGED <<revision, files, ffmpeg, watcherOpen, statPending, termThen, frameNames>>
    /\ UNCHANGED <<cpuCount, workerPool, poolTerminated, runningTasks, summaryPrinted>>
    /\ UNCHANGED <<stageVars, matchVars, cacheVars>>

\* readdir rejects: catch (err) { watcher.close(); await terminateWorkerPool(); reject(err) }
EndReaddirRejects ==
    /\ coordPc = "readdir"
    /\ watcherOpen' = FALSE
    /\ EnterTerminate("reject")
    /\ UNCHANGED <<revision, files, ffmpeg, statPending, processedFrames, frameCount, awaited,
                   frameNames, successCount, failedFrames>>
    /\ UNCHANGED <<stageVars, matchVars, poolVars, cacheVars>>

\* Promise.allSettled resolves: watcher.close(); await Frame.terminateWorkerPool().
EndAllSettled ==
    /\ coordPc = "allSettled"
    /\ \A j \in awaited : Settled(j)
    /\ watcherOpen' = FALSE
    /\ EnterTerminate("resolve")
    /\ UNCHANGED <<revision, files, ffmpeg, statPending, processedFrames, frameCount, awaited,
                   frameNames, successCount, failedFrames>>
    /\ UNCHANGED <<stageVars, matchVars, poolVars, cacheVars>>

\* pool.completed() resolves once no task is queued or running; then
\* terminateWorkerPool races pool.terminate() against the 5 s timer.
TerminateCompleted ==
    /\ coordPc = "completed"
    /\ PoolIdle
    /\ coordPc' = "terminate"
    /\ UNCHANGED frameNames
    /\ UNCHANGED <<stageVars, matchVars, poolVars, cacheVars, tallyVars, watchVars>>

\* pool.terminate() wins the race: Frame.workerPool = null.
TerminateResolves ==
    /\ coordPc = "terminate"
    /\ PoolIdle
    /\ poolTerminated' = TRUE
    /\ workerPool' = NullPool
    /\ AfterTerminate(termThen, completion)
    /\ UNCHANGED <<cpuCount, taskQueue, runningTasks, jobs, frameNames, successCount, failedFrames>>
    /\ UNCHANGED <<revision, files, ffmpeg, watcherOpen, statPending, processedFrames,
                   frameCount, awaited, termThen>>
    /\ UNCHANGED <<stageVars, matchVars, cacheVars>>

\* The 5 s timer wins the race and the handle is kept.
TerminateTimesOutKeepsPool ==
    /\ coordPc = "terminate"
    /\ AfterTerminate(termThen, completion)
    /\ UNCHANGED <<cpuCount, workerPool, poolTerminated, taskQueue, runningTasks, jobs,
                   frameNames, successCount, failedFrames>>
    /\ UNCHANGED <<revision, files, ffmpeg, watcherOpen, statPending, processedFrames,
                   frameCount, awaited, termThen>>
    /\ UNCHANGED <<stageVars, matchVars, cacheVars>>

\* The 5 s timer wins the race: the catch sets Frame.workerPool = null anyway.
TerminateTimesOut ==
    /\ coordPc = "terminate"
    /\ workerPool' = NullPool
    /\ AfterTerminate(termThen, completion)
    /\ UNCHANGED <<cpuCount, poolTerminated, taskQueue, runningTasks, jobs, frameNames,
                   successCount, failedFrames>>
    /\ UNCHANGED <<revision, files, ffmpeg, watcherOpen, statPending, processedFrames,
                   frameCount, awaited, termThen>>
    /\ UNCHANGED <<stageVars, matchVars, cacheVars>>

\* A job ends on its worker and processFrame resumes on the main thread.  A
\* task failure while terminateWorkerPool awaits the pool (completed() and
\* terminate() reject on a failed task) lands in its catch: the handle is
\* set to null and the handler goes on.
WatchJobEnds(j, ok) ==
    /\ CanEnd(j, ok)
    /\ ~poolTerminated
    /\ runningTasks' = TaskEnded(j)
    /\ LET ended == [Tally EXCEPT !.jobs[j].state = IF ok THEN "ok" ELSE "failed"]
           st == IF ok THEN FrameSucceeded(ended, jobs[j].frame)
                 ELSE FrameFailed(ended, jobs[j].frame)
       IN  /\ ApplyTally(st)
           /\ IF ~ok /\ coordPc \in {"completed", "terminate"}
              THEN /\ workerPool' = NullPool
                   /\ AfterTerminate(termThen, st.completion)
              ELSE /\ completion' = st.completion
                   /\ UNCHANGED <<workerPool, coordPc, summaryPrinted>>
    /\ UNCHANGED <<cpuCount, poolTerminated, frameNames>>
    /\ UNCHANGED <<revision, files, ffmpeg, watcherOpen, statPending, awaited, termThen>>
    /\ UNCHANGED <<stageVars, matchVars, cacheVars>>

NextWatch ==
    \/ \E i \in 1..MaxWatchedFrames : FfmpegCreatesFrame(i)
    \/ \E i \in 1..MaxWatchedFrames : FfmpegFillsFrame(i)
    \/ \E n \in DirNames : WatchEvent(n)
    \/ \E n \in WatchedFrames : StatResolves(n)
    \/ \E n \in WatchedFrames : StatRejects(n)
    \/ FfmpegEnds
    \/ FfmpegErrors
    \/ EndRescan
    \/ EndReaddirRejects
    \/ EndAllSettled
    \/ TerminateCompleted
    \/ TerminateResolves
    \/ TerminateTimesOut
    \/ PoolRunTask
    \/ \E j \in JobIds, ok \in BOOLEAN : WatchJobEnds(j, ok)

SpecMain == InitWatch("main") /\ [][NextWatch]_vars

SpecReject == InitWatch("reject") /\ [][NextWatch]_vars

\* ------------------------------- the in-flight-set coordinator (index.ts)

\* const MAX_CONCURRENT_FRAMES = 3
MAX_CONCURRENT_FRAMES == 3

\* The `while` test left out: a call never waits.
SlotAlwaysFree(active) == TRUE

\* `while (activeProcessing.size >= MAX_CONCURRENT_FRAMES)` is left
SlotFree(active) == Cardinality(active) < MAX_CONCURRENT_FRAMES

\* What processFrameQueue and processFrame read and write on the main thread.
ManualState ==
    [jobs |-> jobs, taskQueue |-> taskQueue, frameCount |-> frameCount,
     processedFrames |-> processedFrames, completion |-> completion,
     activeProcessing |-> manual.activeProcessing, calls |-> manual.calls,
     remainingFrames |-> manual.remainingFrames, rescanDone |-> FALSE]

ApplyManual(st) ==
    /\ jobs' = st.jobs
    /\ taskQueue' = st.taskQueue
    /\ frameCount' = st.frameCount
    /\ processedFrames' = st.processedFrames
    /\ completion' = st.completion
    /\ manual' = [pc |-> "on", activeProcessing |-> st.activeProcessing,
                  calls |-> st.calls, remainingFrames |-> st.remainingFrames]

\* processFrameQueue past its loop, for call c: processFrame(framePath) runs
\* to its await and its promise is added to activeProcessing.  With no pool,
\* or a closing one, transformAndOutput throws at once: processFrame's finally
\* adds the frame to processedFrames and the promise's finally deletes it
\* from the set again.
StartFrame(st, c) ==
    LET name == st.calls[c].frame
        id == Len(st.jobs) + 1
        job(state) == [NewJob(name, state, 0) EXCEPT !.via = st.calls[c].via]
    IN  IF workerPool = NullPool \/ PoolClosing
        THEN [st EXCEPT !.jobs = Append(@, job("failed")),
                        !.processedFrames = @ \cup {name},
                        !.calls[c].state = "started", !.calls[c].job = id]
        ELSE [st EXCEPT !.jobs = Append(@, job("queued")),
                        !.taskQueue = Append(@, id),
                        !.activeProcessing = @ \cup {id},
                        !.calls[c].state = "started", !.calls[c].job = id]

\* processFrameQueue(framePath), from the call to its first await or its
\* return: with a full set the call waits on Promise.race(activeProcessing).
ProcessFrameQueue(st, name, via) ==
    LET c == Len(st.calls) + 1
        called == [st EXCEPT !.calls = Append(@, [frame |-> name, via |-> via,
                                                  state |-> "waiting", job |-> 0])]
    IN  IF SlotFree(st.activeProcessing) THEN StartFrame(called, c) ELSE called

\* A promise of the set has resolved: every waiting call's race resolves and
\* the calls test the `while` condition again, in the order they waited.
RECURSIVE WakeFrom(_, _)
WakeFrom(st, c) ==
    IF c > Len(st.calls) THEN st
    ELSE IF st.calls[c].state = "waiting" /\ SlotFree(st.activeProcessing)
         THEN WakeFrom(StartFrame(st, c), c + 1)
         ELSE WakeFrom(st, c + 1)

\* A promise of the set has rejected: every waiting call's race rejects and
\* its processFrameQueue throws out of the loop; a call made by the watcher
\* lands in `.catch(reject)`.
RejectWaiting(st) ==
    LET waiting == {c \in 1..Len(st.calls) : st.calls[c].state = "waiting"}
    IN  [st EXCEPT !.calls = [c \in 1..Len(st.calls) |->
                                 IF c \in waiting THEN [st.calls[c] EXCEPT !.state = "rejected"]
                                 ELSE st.calls[c]],
                   !.completion = IF \E c \in waiting : st.calls[c].via = "watch"
                                  THEN Reject(@) ELSE @]

\* for (const frame of remainingFrames) { if (...) await processFrameQueue(frame) }
\* from frame `names[1]` on, until a call has to wait or the loop ends.
RECURSIVE ManualRescan(_, _)
ManualRescan(st, names) ==
    IF names = <<>> THEN [st EXCEPT !.remainingFrames = <<>>, !.rescanDone = TRUE]
    ELSE LET name == Head(names)
         IN  IF files[name] # "absent" /\ RescanTakes(name, st.processedFrames)
             THEN LET called == ProcessFrameQueue(st, name, "rescan")
                  IN  IF called.calls[Len(called.calls)].state = "waiting"
                      THEN [called EXCEPT !.remainingFrames = Tail(names)]
                      ELSE ManualRescan(called, Tail(names))
             ELSE ManualRescan(st, Tail(names))

\* The rescan loop is held up by a waiting call.
RescanWaits(st) ==
    \E c \in 1..Len(st.calls) : st.calls[c].via = "rescan" /\ st.calls[c].state = "waiting"

\* processVideo of index.ts after VideoFrame.initializeWorkerPool(MAX_CONCURRENT_FRAMES),
\* with the watcher installed and the frame source started.
InitManual ==
    /\ IdleMatch
    /\ cpuCount \in 1..MaxCpu
    /\ workerPool = Pool(MAX_CONCURRENT_FRAMES, cpuCount)
    /\ poolTerminated = FALSE
    /\ taskQueue = <<>>
    /\ runningTasks = [w \in Workers |-> {}]
    /\ jobs = <<>>
    /\ imageCache = [w \in Workers |-> [k \in CacheKeys |-> 0]]
    /\ resizeCalls = [k \in CacheKeys |-> 0]
    /\ getDone = [k \in CacheKeys |-> FALSE]
    /\ coordPc = "extracting"
    /\ frameNames = <<>>
    /\ successCount = 0
    /\ failedFrames = <<>>
    /\ summaryPrinted = FALSE
    /\ revision = "manual"
    /\ files = [n \in DirNames |-> IF n = StrayFile THEN "full" ELSE "absent"]
    /\ ffmpeg = "running"
    /\ watcherOpen = TRUE
    /\ statPending = [n \in WatchedFrames |-> 0]
    /\ processedFrames = {}
    /\ frameCount = 0
    /\ awaited = {}
    /\ termThen = "resolve"
    /\ completion = "pending"
    /\ tileJob = [pc |-> "off"]
    /\ frameJob = [pc |-> "off"]
    /\ catalogBuild = [pc |-> "off"]
    /\ run = [pc |-> "off"]
    /\ api = [pc |-> "off"]
    /\ serial = [pc |-> "off"]
    /\ manual = [pc |-> "on", activeProcessing |-> {}, calls |-> <<>>,
                 remainingFrames |-> <<>>]

\* Watch callbacks on frame files that await stat or called processFrameQueue.
ManualEventsTaken ==
    SumPending(WatchedFrames) +
    Cardinality({c \in 1..Len(manual.calls) : manual.calls[c].via = "watch"})

\* The fs.watch callback, from an event for `name` to its await of stat.
ManualWatchEvent(name) ==
    /\ watcherOpen
    /\ files[name] # "absent"
    /\ IF EndsWithPng(name) /\ name \notin processedFrames
       THEN /\ ManualEventsTaken < MaxWatchEvents
            /\ statPending' = [statPending EXCEPT ![name] = @ + 1]
       ELSE UNCHANGED statPending
    /\ UNCHANGED <<revision, files, ffmpeg, watcherOpen, processedFrames,
                   frameCount, awaited, termThen, completion>>
    /\ UNCHANGED <<stageVars, matchVars, poolVars, cacheVars, tallyVars, coordVars>>

\* stat resolves: if (size > 0) processFrameQueue(fileName).catch(reject)
ManualStatResolves(name) ==
    /\ statPending[name] > 0
    /\ statPending' = [statPending EXCEPT ![name] = @ - 1]
    /\ ApplyManual(IF files[name] = "full"
                   THEN ProcessFrameQueue(ManualState, name, "watch")
                   ELSE ManualState)
    /\ UNCHANGED <<revision, files, ffmpeg, watcherOpen, awaited, termThen>>
    /\ UNCHANGED <<cpuCount, workerPool, poolTerminated, runningTasks>>
    /\ UNCHANGED <<tileJob, frameJob, catalogBuild, run, api, serial>>
    /\ UNCHANGED <<matchVars, cacheVars, tallyVars, coordVars>>

\* static async terminateWorkerPool() of index.ts, entered with `then` to
\* follow it: a null handle returns at once, otherwise await pool.terminate().
ManualEnterTerminate(then, c) ==
    /\ termThen' = then
    /\ IF workerPool = NullPool
       THEN /\ coordPc' = "finished"
            /\ completion' = IF then = "resolve" THEN Resolve(c) ELSE Reject(c)
       ELSE /\ coordPc' = "terminate"
            /\ completion' = c

\* ffmpeg 'error': watcher.close(); await VideoFrame.terminateWorkerPool(); reject(err).
ManualFfmpegErrors ==
    /\ ffmpeg = "running"
    /\ ffmpeg' = "error"
    /\ watcherOpen' = FALSE
    /\ ManualEnterTerminate("reject", completion)
    /\ UNCHANGED <<revision, files, statPending, processedFrames, frameCount, awaited,
                   frameNames>>
    /\ UNCHANGED <<stageVars, matchVars, poolVars, cacheVars, tallyVars>>

\* readdir resolves: the rescan loop runs until a call has to wait; past the
\* loop, Promise.allSettled(activeProcessing) takes the set as it is then.
ManualEndRescan ==
    /\ coordPc = "readdir"
    /\ LET st == ManualRescan(ManualState, Readdir)
       IN  /\ ApplyManual(st)
           /\ coordPc' = IF st.rescanDone THEN "allSettled" ELSE "rescan"
           /\ awaited' = IF st.rescanDone THEN st.activeProcessing ELSE awaited
    /\ UNCHANGED <<revision, files, ffmpeg, watcherOpen, statPending, termThen, frameNames>>
    /\ UNCHANGED <<cpuCount, workerPool, poolTerminated, runningTasks>>
    /\ UNCHANGED <<tileJob, frameJob, catalogBuild, run, api, serial>>
    /\ UNCHANGED <<matchVars, cacheVars, tallyVars>>

\* readdir rejects: catch (err) { watcher.close(); await terminateWorkerPool(); reject(err) }
ManualReaddirRejects ==
    /\ coordPc = "readdir"
    /\ watcherOpen' = FALSE
    /\ ManualEnterTerminate("reject", completion)
    /\ UNCHANGED <<revision, files, ffmpeg, statPending, processedFrames, frameCount, awaited,
                   frameNames>>
    /\ UNCHANGED <<stageVars, matchVars, poolVars, cacheVars, tallyVars>>

\* Promise.allSettled resolves: watcher.close(); await VideoFrame.terminateWorkerPool().
ManualAllSettled ==
    /\ coordPc = "allSettled"
    /\ \A j \in awaited : Settled(j)
    /\ watcherOpen' = FALSE
    /\ ManualEnterTerminate("resolve", completion)
    /\ UNCHANGED <<revision, files, ffmpeg, statPending, processedFrames, frameCount, awaited,
                   frameNames>>
    /\ UNCHANGED <<stageVars, matchVars, poolVars, cacheVars, tallyVars>>

\* pool.terminate() resolves once no task is queued or running:
\* VideoFrame.workerPool = null, then resolve() or reject(err).
ManualTerminateResolves ==
    /\ coordPc = "terminate"
    /\ PoolIdle
    /\ poolTerminated' = TRUE
    /\ workerPool' = NullPool
    /\ coordPc' = "finished"
    /\ completion' = IF termThen = "resolve" THEN Resolve(completion) ELSE Reject(completion)
    /\ UNCHANGED <<cpuCount, taskQueue, runningTasks, jobs, frameNames>>
    /\ UNCHANGED <<revision, files, ffmpeg, watcherOpen, statPending, processedFrames,
                   frameCount, awaited, termThen>>
    /\ UNCHANGED <<stageVars, matchVars, cacheVars, tallyVars>>

\* A job ends on its worker.  processFrame resumes (frameCount++ or rethrow,
\* finally processedFrames.add), the promise's finally deletes it from
\* activeProcessing, and the waiting calls' races settle with it.  A rejected
\* race in the rescan loop lands in the 'end' handler's catch.  A failed task
\* makes a pending pool.terminate() reject: in the handler's try block that
\* leads to its catch, which terminates again and rejects; in a catch block
\* or the 'error' handler nothing catches it and neither resolve nor reject
\* is called.
ManualJobEnds(j, ok) ==
    /\ CanEnd(j, ok)
    /\ ~poolTerminated
    /\ runningTasks' = TaskEnded(j)
    /\ LET ended == [ManualState EXCEPT
                        !.jobs[j].state = IF ok THEN "ok" ELSE "failed",
                        !.frameCount = IF ok THEN @ + 1 ELSE @,
                        !.processedFrames = @ \cup {jobs[j].frame},
                        !.activeProcessing = @ \ {j}]
           settled == IF ok THEN WakeFrom(ended, 1) ELSE RejectWaiting(ended)
           resumed == coordPc = "rescan" /\ ~RescanWaits(settled)
           st == IF ok /\ resumed THEN ManualRescan(settled, settled.remainingFrames)
                 ELSE settled
       IN  /\ jobs' = st.jobs
           /\ taskQueue' = st.taskQueue
           /\ frameCount' = st.frameCount
           /\ processedFrames' = st.processedFrames
           /\ manual' = [pc |-> "on", activeProcessing |-> st.activeProcessing,
                         calls |-> st.calls, remainingFrames |-> st.remainingFrames]
           /\ awaited' = IF ok /\ resumed /\ st.rescanDone THEN st.activeProcessing ELSE awaited
           /\ IF ok
              THEN /\ coordPc' = IF resumed
                                 THEN (IF st.rescanDone THEN "allSettled" ELSE "rescan")
                                 ELSE coordPc
                   /\ completion' = st.completion
                   /\ UNCHANGED <<watcherOpen, termThen>>
              ELSE IF resumed
                   THEN /\ watcherOpen' = FALSE
                        /\ ManualEnterTerminate("reject", st.completion)
                   ELSE IF coordPc = "terminate"
                        THEN /\ coordPc' = IF termThen = "resolve" THEN "terminate" ELSE "unhandled"
                             /\ termThen' = "reject"
                             /\ completion' = st.completion
                             /\ UNCHANGED watcherOpen
                        ELSE /\ completion' = st.completion
                             /\ UNCHANGED <<coordPc, watcherOpen, termThen>>
    /\ UNCHANGED <<cpuCount, workerPool, poolTerminated, frameNames>>
    /\ UNCHANGED <<revision, files, ffmpeg, statPending>>
    /\ UNCHANGED <<tileJob, frameJob, catalogBuild, run, api, serial>>
    /\ UNCHANGED <<matchVars, cacheVars, tallyVars>>

NextManual ==
    \/ \E i \in 1..MaxWatchedFrames : FfmpegCreatesFrame(i)
    \/ \E i \in 1..MaxWatchedFrames : FfmpegFillsFrame(i)
    \/ \E n \in DirNames : ManualWatchEvent(n)
    \/ \E n \in WatchedFrames : ManualStatResolves(n)
    \/ \E n \in WatchedFrames : StatRejects(n)
    \/ FfmpegEnds
    \/ ManualFfmpegErrors
    \/ ManualEndRescan
    \/ ManualReaddirRejects
    \/ ManualAllSettled
    \/ ManualTerminateResolves
    \/ PoolRunTask
    \/ \E j \in JobIds, ok \in BOOLEAN : ManualJobEnds(j, ok)

SpecManual == InitManual /\ [][NextManual]_vars

\* ----------------------------------------------------- matcher under test

InitMatch ==
    /\ imageMapArray \in Catalogs
    /\ meanTileBrightness \in Brightness
    /\ matchPc = "call"
    /\ matchResult = UNDEFINED
    /\ mapMatchResult = UNDEFINED
    /\ IdleRun
    /\ IdleStages

\* One tile is matched: worker.ts 103 and part_001 114.
MatchTile ==
    /\ matchPc = "call"
    /\ matchResult' = matchNearestImage(meanTileBrightness, imageMapArray)
    /\ mapMatchResult' = VideoFrame_matchNearestImage(meanTileBrightness, imageMapArray)
    /\ matchPc' = "done"
    /\ UNCHANGED <<imageMapArray, meanTileBrightness>>
    /\ UNCHANGED <<poolVars, cacheVars, tallyVars, coordVars, watchVars, stageVars>>

NextMatch == MatchTile

SpecMatch == InitMatch /\ [][NextMatch]_vars

\* ------------------------------------------ brightness and the tile pass

\* A Uint8Array argument: passed or missing, with its bytes.
Buffer(bytes) == [defined |-> TRUE, bytes |-> bytes]
MissingBuffer == [defined |-> FALSE, bytes |-> <<>>]

\* for (let i = 0; i < rawGrayscaleData.length; i++) sum += rawGrayscaleData[i] ?? 0
\* (the bytes lo..hi are added by halves, which keeps the evaluation shallow;
\* the integer sum is the same in any order)
RECURSIVE SumRange(_, _, _)
SumRange(bytes, lo, hi) ==
    IF lo > hi THEN 0
    ELSE IF lo = hi THEN bytes[lo]
    ELSE LET mid == (lo + hi) \div 2
         IN  SumRange(bytes, lo, mid) + SumRange(bytes, mid + 1, hi)

Sum(bytes, n) == SumRange(bytes, 1, n)

\* The sum divided by one more than the length.
QuotientOffByOne(sum, length) == sum \div (length + 1)

\* sum / rawGrayscaleData.length: the exact quotient, for sums the length divides.
Quotient(sum, length) == sum \div length

\* No input counts as empty.
NeverEmpty(raw) == FALSE

\* !rawGrayscaleData || rawGrayscaleData.length === 0
EmptyInput(raw) == ~raw.defined \/ Len(raw.bytes) = 0

\* deriveMeanBrightness: whether it threw, how many divisions it performed,
\* and the mean it returned (NULL when it returned nothing).
deriveMeanBrightness(raw) ==
    IF EmptyInput(raw)
    THEN [threw |-> TRUE, divisions |-> 0, meanBrightness |-> NULL]
    ELSE IF ~raw.defined
    THEN [threw |-> TRUE, divisions |-> 0, meanBrightness |-> NULL]
    ELSE LET sum == Sum(raw.bytes, Len(raw.bytes))
         IN  IF Len(raw.bytes) > 0
             THEN [threw |-> FALSE, divisions |-> 1,
                   meanBrightness |-> Quotient(sum, Len(raw.bytes))]
             ELSE [threw |-> FALSE, divisions |-> 0, meanBrightness |-> 0]

\* Every value passes the test.
AlwaysTruthy(value) == TRUE

\* if (nearestImage): a string other than the empty one
IsTruthy(value) == value # UNDEFINED /\ value # ""

\* The catch block throws the error on.
TileCatchRethrows(tile) == [tile EXCEPT !.outcome = "error", !.thrown = TRUE]

\* catch(e) { console.error(`Error processing tile at ...`, e) }
TileCatch(tile) == [tile EXCEPT !.outcome = "error", !.thrown = FALSE]

\* compositeOperations.push({ input: replacementBuffer, left: x, top: y })
Placement(key, x, y) == [input |-> key, left |-> x, top |-> y]

\* The tile try block of processFrame for the tile at (x, y): the mean of
\* its bytes, the match, the cached or fresh resize (resizeOk: whether a
\* fresh resize resolves), and the placement it registers.  `cache` is the
\* set of keys of the worker's imageCache.
ProcessTile(raw, arr, cache, x, y, tileWidth, tileHeight, resizeOk) ==
    LET derived == deriveMeanBrightness(raw)
        start == [mean |-> derived, nearestImage |-> UNDEFINED, placements |-> <<>>,
                  cache |-> cache, thrown |-> FALSE, outcome |-> "none"]
    IN  IF derived.threw THEN TileCatch(start)
        ELSE LET nearestImage == matchNearestImage(derived.meanBrightness, arr)
                 matched == [start EXCEPT !.nearestImage = nearestImage]
                 key == CacheKey(nearestImage, tileWidth, tileHeight)
                 placed == [matched EXCEPT !.placements = <<Placement(key, x, y)>>,
                                           !.cache = cache \cup {key},
                                           !.outcome = "placed"]
             IN  IF ~IsTruthy(nearestImage) THEN matched
                 ELSE IF key \in cache \/ resizeOk THEN placed
                 ELSE TileCatch(matched)

\* Grayscale buffers of up to MaxTileBytes bytes, each a low intensity or the
\* highest one, whose mean is a whole number, which the model's integers hold
\* exactly; and the missing buffer.
ByteSeqs(n) == [1..n -> Brightness \cup {MaxByte}]
TileBuffers ==
    {MissingBuffer} \cup
    {Buffer(b) : b \in {c \in UNION {ByteSeqs(n) : n \in 0..MaxTileBytes} :
                            Len(c) = 0 \/ Sum(c, Len(c)) % Len(c) = 0}}

\* Catalogs of at most two entries.
SmallCatalogs == {c \in Catalogs : Len(c) <= 2}

\* One tile of one row is about to be processed on a worker whose cache is empty.
InitTile ==
    /\ imageMapArray \in SmallCatalogs
    /\ meanTileBrightness = 0
    /\ matchPc = "off"
    /\ matchResult = UNDEFINED
    /\ mapMatchResult = UNDEFINED
    /\ IdleRun
    /\ \E raw \in TileBuffers :
          tileJob = [pc |-> "try", raw |-> raw, x |-> 0, y |-> 0,
                     tileWidth |-> Len(raw.bytes), tileHeight |-> 1]
    /\ frameJob = [pc |-> "off"]
    /\ catalogBuild = [pc |-> "off"]
    /\ manual = [pc |-> "off"]
    /\ run = [pc |-> "off"]
    /\ api = [pc |-> "off"]
    /\ serial = [pc |-> "off"]

\* The try block runs to its end or into its catch.
TileProcessed(resizeOk) ==
    /\ tileJob.pc = "try"
    /\ tileJob' = [pc |-> "done", raw |-> tileJob.raw,
                   result |-> ProcessTile(tileJob.raw, imageMapArray, {}, tileJob.x, tileJob.y,
                                          tileJob.tileWidth, tileJob.tileHeight, resizeOk)]
    /\ UNCHANGED <<frameJob, catalogBuild, manual, run, api, serial>>
    /\ UNCHANGED <<matchVars, poolVars, cacheVars, tallyVars, coordVars, watchVars>>

NextTile == \E resizeOk \in BOOLEAN : TileProcessed(resizeOk)

SpecTile == InitTile /\ [][NextTile]_vars

\* ------------------------------------------------- one frame job (worker)

\* Math.floor(a / b)
Floor(a, b) == a \div b

\* Math.ceil(a / b), for a >= 0 and b > 0
Ceil(a, b) == (a + b - 1) \div b

\* The tile size itself, not clipped at the frame's edge.
FullTileExtent(size, limit, pos) == size

\* What is left of the frame from the tile's origin, not limited to the tile size.
RestOfFrame(size, limit, pos) == limit - pos

\* Math.min(TILE_SIZE, width - x)
TileExtent(size, limit, pos) == Min(size, limit - pos)

\* The canvas with width and height exchanged.
SwappedCanvas(width, height) == [width |-> height, height |-> width, composite |-> <<>>]

\* sharp({ create: { width, height, channels: 3, background: black } })
BlankCanvas(width, height) == [width |-> width, height |-> height, composite |-> <<>>]

\* if (compositeOperations.length > 0) processedImage = processedImage.composite(...)
Composite(canvas, operations) ==
    IF Len(operations) > 0 THEN [canvas EXCEPT !.composite = operations] ELSE canvas

\* tileRaw of a frame whose every pixel has intensity `shade`.
UniformTile(shade, tileWidth, tileHeight) ==
    Buffer([i \in 1..(tileWidth * tileHeight) |-> shade])

\* The frame of the worked example: 18 x 18 pixels, tile size 16.
ScenarioFrame == [width |-> 18, height |-> 18, TILE_SIZE |-> 16]

\* The frames enumerated: every (width, height, tile size) within the
\* bounds, a dimension being NULL when the metadata has none, and the
\* worked example.
FrameInputs ==
    {[width |-> w, height |-> h, TILE_SIZE |-> t] :
        w \in {NULL} \cup 0..MaxDim, h \in {NULL} \cup 0..MaxDim, t \in 1..MaxTileSize}
    \cup {ScenarioFrame}

\* Only a missing or zero width fails the test.
NoWidth(width, height) == width = NULL \/ width = 0

\* if (!width || !height)
NoDimensions(width, height) ==
    \/ width = NULL \/ width = 0
    \/ height = NULL \/ height = 0

\* path.join(FRAMES_DIR, framePath) and path.join(FRAMES_OUT_DIR, framePath)
FramesDirPath(name) ==
    <<"frames/frame_0001.png", "frames/frame_0002.png", "frames/frame_0003.png",
      "frames/frame_0004.png", "frames/frame_0005.png">>[CHOOSE i \in 1..5 : FrameName(i) = name]
FramesOutDirPath(name) ==
    <<"frames-out/frame_0001.png", "frames-out/frame_0002.png", "frames-out/frame_0003.png",
      "frames-out/frame_0004.png", "frames-out/frame_0005.png">>[CHOOSE i \in 1..5 : FrameName(i) = name]

\* The object the dispatcher passes to the worker's processFrame.
QueuedPayload(imagePath, imageOutPath, imageMap) ==
    [imagePath |-> imagePath, imageOutPath |-> imageOutPath, TILE_SIZE |-> TILE_SIZE,
     imageMapArray |-> ArrayFromEntries(imageMap)]

\* An object with the properties the worker's processFrame destructures.
WorkerArgument(framePath, frameOutPath, tileSize, arr) ==
    [framePath |-> framePath, frameOutPath |-> frameOutPath, TILE_SIZE |-> tileSize,
     imageMapArray |-> arr]

\* Destructuring `{ framePath, frameOutPath, TILE_SIZE, imageMapArray }`: a
\* property the argument does not have yields undefined.
Param(argument, key) ==
    IF key \in DOMAIN argument THEN argument[key] ELSE UNDEFINED

\* The worker's processFrame entered with `argument`, for the file of frame
\* `frame` with the decoded dimensions of `in` and every pixel of intensity
\* `shade`; the worker's cache is empty.
WorkerCall(frame, argument, in, shade) ==
    [pc |-> "read", width |-> in.width, height |-> in.height,
     argument |-> argument,
     framePath |-> Param(argument, "framePath"),
     frameOutPath |-> Param(argument, "frameOutPath"),
     TILE_SIZE |-> Param(argument, "TILE_SIZE"), shade |-> shade,
     tilesX |-> 0, tilesY |-> 0, tileX |-> 0, tileY |-> 0,
     tiles |-> <<>>, compositeOperations |-> <<>>, cache |-> {},
     outcome |-> "pending", cause |-> "none", output |-> <<>>,
     matchRate |-> [matched |-> NULL, totalTiles |-> NULL],
     frame |-> frame,
     readFrom |-> UNDEFINED, wroteTo |-> UNDEFINED, settled |-> FALSE]

\* The state around one frame job of main.ts, with `pool` as Frame.workerPool.
OneFrameOfMain(pool) ==
    /\ imageMapArray \in SmallCatalogs
    /\ meanTileBrightness = 0
    /\ matchPc = "off"
    /\ matchResult = UNDEFINED
    /\ mapMatchResult = UNDEFINED
    /\ cpuCount = 1
    /\ workerPool = pool
    /\ poolTerminated = FALSE
    /\ taskQueue = <<>>
    /\ runningTasks = [w \in Workers |-> {}]
    /\ jobs = <<>>
    /\ imageCache = [w \in Workers |-> [k \in CacheKeys |-> 0]]
    /\ resizeCalls = [k \in CacheKeys |-> 0]
    /\ getDone = [k \in CacheKeys |-> FALSE]
    /\ coordPc = "off"
    /\ frameNames = <<>>
    /\ successCount = 0
    /\ failedFrames = <<>>
    /\ summaryPrinted = FALSE
    /\ revision = "main"
    /\ files = [n \in DirNames |-> "absent"]
    /\ ffmpeg = "off"
    /\ watcherOpen = FALSE
    /\ statPending = [n \in WatchedFrames |-> 0]
    /\ processedFrames = {}
    /\ frameCount = 0
    /\ awaited = {}
    /\ termThen = "resolve"
    /\ completion = "pending"
    /\ tileJob = [pc |-> "off"]
    /\ catalogBuild = [pc |-> "off"]
    /\ manual = [pc |-> "off"]
    /\ run = [pc |-> "off"]
    /\ api = [pc |-> "off"]
    /\ serial = [pc |-> "off"]

\* A worker starts processFrame with a frame's input and output path.
InitFrame ==
    /\ OneFrameOfMain(NullPool)
    /\ \E in \in FrameInputs, shade \in {0, MaxBrightness} :
          frameJob = WorkerCall(FrameName(1),
                                WorkerArgument(FramesDirPath(FrameName(1)),
                                               FramesOutDirPath(FrameName(1)),
                                               in.TILE_SIZE, imageMapArray),
                                in, shade)

\* processFrame ends with `throw e`.
FrameThrows(job, cause) == [job EXCEPT !.pc = "done", !.outcome = "failed", !.cause = cause]

\* readFile(framePath), metadata and the raw grayscale buffer (ok: none of
\* them rejects; readFile rejects when framePath is undefined), the
\* dimension test, tilesX and tilesY, the blank canvas.
FrameReads(ok) ==
    /\ frameJob.pc = "read"
    /\ ok => frameJob.framePath # UNDEFINED
    /\ frameJob' =
          IF ~ok THEN FrameThrows(frameJob, "read")
          ELSE IF NoDimensions(frameJob.width, frameJob.height)
          THEN FrameThrows([frameJob EXCEPT !.readFrom = frameJob.framePath], "dimensions")
          ELSE LET tilesX == Ceil(frameJob.width, frameJob.TILE_SIZE)
                   tilesY == Ceil(frameJob.height, frameJob.TILE_SIZE)
               IN  [frameJob EXCEPT !.readFrom = frameJob.framePath,
                                    !.tilesX = tilesX, !.tilesY = tilesY,
                                    !.pc = IF tilesX > 0 /\ tilesY > 0 THEN "tiles" ELSE "save"]
    /\ UNCHANGED <<tileJob, catalogBuild, manual, run, api, serial>>
    /\ UNCHANGED <<matchVars, poolVars, cacheVars, tallyVars, coordVars, watchVars>>

\* One pass of the loop body for the tile (tileX, tileY), and the step of
\* the two for loops to the next tile or past the last one.
FrameTile(resizeOk) ==
    /\ frameJob.pc = "tiles"
    /\ LET x == frameJob.tileX * frameJob.TILE_SIZE
           y == frameJob.tileY * frameJob.TILE_SIZE
           tileWidth == TileExtent(frameJob.TILE_SIZE, frameJob.width, x)
           tileHeight == TileExtent(frameJob.TILE_SIZE, frameJob.height, y)
           tileRaw == UniformTile(frameJob.shade, tileWidth, tileHeight)
           r == ProcessTile(tileRaw, imageMapArray, frameJob.cache, x, y,
                            tileWidth, tileHeight, resizeOk)
           lastInRow == frameJob.tileX + 1 >= frameJob.tilesX
           lastRow == frameJob.tileY + 1 >= frameJob.tilesY
       IN  frameJob' =
             IF r.thrown THEN FrameThrows(frameJob, "tile")
             ELSE [frameJob EXCEPT
                     !.tiles = Append(@, [x |-> x, y |-> y, width |-> tileWidth,
                                          height |-> tileHeight, outcome |-> r.outcome]),
                     !.compositeOperations = @ \o r.placements,
                     !.cache = r.cache,
                     !.tileX = IF lastInRow THEN 0 ELSE @ + 1,
                     !.tileY = IF lastInRow THEN @ + 1 ELSE @,
                     !.pc = IF lastInRow /\ lastRow THEN "save" ELSE "tiles"]
    /\ UNCHANGED <<tileJob, catalogBuild, manual, run, api, serial>>
    /\ UNCHANGED <<matchVars, poolVars, cacheVars, tallyVars, coordVars, watchVars>>

\* The tiles emitted over the total, as the matched count.
MatchRateOfTiles(job) ==
    [matched |-> Len(job.tiles), totalTiles |-> job.tilesX * job.tilesY]

\* console.log(`  Match rate: ${compositeOperations.length}/${totalTiles} tiles ...`)
MatchRate(job) ==
    [matched |-> Len(job.compositeOperations), totalTiles |-> job.tilesX * job.tilesY]

\* The match rate is logged; then the composite and
\* processedImage.png().toFile(frameOutPath) (ok: it resolves).
FrameSaves(ok) ==
    /\ frameJob.pc = "save"
    /\ ok => frameJob.frameOutPath # UNDEFINED
    /\ LET logged == [frameJob EXCEPT !.matchRate = MatchRate(frameJob)]
       IN  frameJob' =
             IF ok
             THEN [logged EXCEPT !.pc = "done", !.outcome = "ok",
                                 !.wroteTo = frameJob.frameOutPath,
                                 !.output = <<Composite(BlankCanvas(frameJob.width, frameJob.height),
                                                        frameJob.compositeOperations)>>]
             ELSE FrameThrows(logged, "save")
    /\ UNCHANGED <<tileJob, catalogBuild, manual, run, api, serial>>
    /\ UNCHANGED <<matchVars, poolVars, cacheVars, tallyVars, coordVars, watchVars>>

\* The job's promise settles on the main thread and processFrame of main.ts
\* resumes after `await frameImage.transformAndOutput()`.
FrameSettles ==
    /\ frameJob.pc = "done"
    /\ ~frameJob.settled
    /\ frameJob' = [frameJob EXCEPT !.settled = TRUE]
    /\ LET st == IF frameJob.outcome = "ok"
                 THEN FrameSucceeded(Tally, frameJob.frame)
                 ELSE FrameFailed(Tally, frameJob.frame)
       IN  /\ ApplyTally(st)
           /\ completion' = st.completion
    /\ UNCHANGED <<cpuCount, workerPool, poolTerminated, runningTasks, summaryPrinted>>
    /\ UNCHANGED <<revision, files, ffmpeg, watcherOpen, statPending, awaited, termThen>>
    /\ UNCHANGED <<tileJob, catalogBuild, manual, run, api, serial>>
    /\ UNCHANGED <<matchVars, cacheVars, coordVars>>

NextFrame ==
    \/ \E ok \in BOOLEAN : FrameReads(ok)
    \/ \E resizeOk \in BOOLEAN : FrameTile(resizeOk)
    \/ \E ok \in BOOLEAN : FrameSaves(ok)
    \/ FrameSettles

SpecFrame == InitFrame /\ [][NextFrame]_vars

\* processFrame of main.ts has constructed the Frame of one extracted frame
\* file (main.ts 71-75); the pool exists.
InitDispatch ==
    /\ OneFrameOfMain(initializeWorkerPool(NullPool, 0, 1))
    /\ \E name \in WatchedFrames, in \in FrameInputs, shade \in {0, MaxBrightness} :
          frameJob = [pc |-> "new", frame |-> name,
                      imagePath |-> FramesDirPath(name),
                      imageOutPath |-> FramesOutDirPath(name),
                      decoded |-> in, shade |-> shade, settled |-> FALSE]

\* Frame.transformAndOutput queues the task, and the pool's worker calls
\* processFrame with the queued payload.
TransformAndOutputQueues ==
    /\ frameJob.pc = "new"
    /\ workerPool # NullPool
    /\ frameJob' = WorkerCall(frameJob.frame,
                              QueuedPayload(frameJob.imagePath, frameJob.imageOutPath,
                                            imageMapArray),
                              frameJob.decoded, frameJob.shade)
    /\ UNCHANGED <<tileJob, catalogBuild, manual, run, api, serial>>
    /\ UNCHANGED <<matchVars, poolVars, cacheVars, tallyVars, coordVars, watchVars>>

\* One dispatched frame, from the call of transformAndOutput to the
\* coordinator's tally.  The worker's framePath is undefined for every queued
\* payload, so readFile rejects and processFrame leaves through its catch:
\* the tile loop and the save are not among the job's steps.
NextDispatch ==
    \/ TransformAndOutputQueues
    \/ \E ok \in BOOLEAN : FrameReads(ok)
    \/ FrameSettles

SpecDispatch == InitDispatch /\ [][NextDispatch]_vars

\* The two-image catalog of the worked example, in insertion order.
ScenarioCatalog == <<<<50, "dark.png">>, <<200, "bright.png">>>>

\* The matcher applied to the example catalog and every byte-range target.
InitScenario ==
    /\ imageMapArray = ScenarioCatalog
    /\ meanTileBrightness \in 0..MaxByte
    /\ matchPc = "call"
    /\ matchResult = UNDEFINED
    /\ mapMatchResult = UNDEFINED
    /\ IdleRun
    /\ IdleStages

SpecScenario == InitScenario /\ [][NextMatch]_vars

\* ------------------------------------------- the catalog build (main.ts)

\* Map.prototype.has
MapHas(entries, key) == \E i \in 1..Len(entries) : entries[i][1] = key

\* Map.prototype.set: a present key keeps its position and takes the new
\* value, an absent key is appended.
MapSet(entries, key, value) ==
    IF MapHas(entries, key)
    THEN [i \in 1..Len(entries) |->
             IF entries[i][1] = key THEN <<key, value>> ELSE entries[i]]
    ELSE Append(entries, <<key, value>>)

\* `swapImageMap.set(meanBrightness, imageOutPath)` without the has() test.
SetAlways(entries, key, value) == MapSet(entries, key, value)

\* `if (!swapImageMap.has(meanBrightness)) swapImageMap.set(meanBrightness, imageOutPath)`
SetIfAbsent(entries, key, value) ==
    IF ~MapHas(entries, key) THEN MapSet(entries, key, value) ELSE entries

\* A pixel adapter that is not deterministic: the decoded intensities drift
\* from one run of the builder to the next.
transformAndOutputDrifting(raw, imageOutPath) ==
    [imageOutPath |-> imageOutPath,
     meanBrightness |-> deriveMeanBrightness(raw).meanBrightness + catalogBuild.run - 1]

\* SwapImage.transformAndOutput once the file is read and the output written:
\* the mean of the normalized grayscale buffer and the output path.
transformAndOutput(raw, imageOutPath) ==
    [imageOutPath |-> imageOutPath,
     meanBrightness |-> deriveMeanBrightness(raw).meanBrightness]

\* Normalized grayscale buffers of reference images: never empty, and with
\* an exact mean; several buffers share one mean.
SwapImageBuffers ==
    {Buffer(<<b>>) : b \in Brightness} \cup
    {Buffer(<<p[1], p[2]>>) :
        p \in {q \in Brightness \X Brightness : q[1] < q[2] /\ (q[1] + q[2]) % 2 = 0}}

\* readdir(SWAP_IMAGES_DIR): the images in processing order.
SwapImageDirs == UNION {[1..n -> SwapImageBuffers] : n \in 0..MaxSwapImages}

\* processSwapImages after readdir, before the first image.
InitCatalog ==
    /\ IdleMatch
    /\ IdleRun
    /\ tileJob = [pc |-> "off"]
    /\ frameJob = [pc |-> "off"]
    /\ manual = [pc |-> "off"]
    /\ run = [pc |-> "off"]
    /\ api = [pc |-> "off"]
    /\ serial = [pc |-> "off"]
    /\ \E imagePaths \in SwapImageDirs :
          catalogBuild = [pc |-> "loop", imagePaths |-> imagePaths, index |-> 1,
                          swapImageMap |-> <<>>, outcome |-> "pending",
                          run |-> 1, previous |-> <<>>, error |-> 0]

\* One turn of the for loop whose transformAndOutput resolves.
SwapImageProcessed ==
    /\ catalogBuild.pc = "loop"
    /\ catalogBuild.index <= Len(catalogBuild.imagePaths)
    /\ LET i == catalogBuild.index
           r == transformAndOutput(catalogBuild.imagePaths[i], PathOf(i))
       IN  catalogBuild' = [catalogBuild EXCEPT
               !.swapImageMap = SetIfAbsent(@, r.meanBrightness, r.imageOutPath),
               !.index = i + 1]
    /\ UNCHANGED <<tileJob, frameJob, manual, run, api, serial>>
    /\ UNCHANGED <<matchVars, poolVars, cacheVars, tallyVars, coordVars, watchVars>>

\* One turn whose transformAndOutput rejects, the error swallowed: the loop
\* goes on with the next image.
SwapImageSkipped ==
    /\ catalogBuild.pc = "loop"
    /\ catalogBuild.index <= Len(catalogBuild.imagePaths)
    /\ catalogBuild' = [catalogBuild EXCEPT !.index = @ + 1,
                                            !.error = catalogBuild.index]
    /\ UNCHANGED <<tileJob, frameJob, manual, run, api, serial>>
    /\ UNCHANGED <<matchVars, poolVars, cacheVars, tallyVars, coordVars, watchVars>>

\* One turn whose transformAndOutput rejects (the file cannot be read or
\* decoded, or the output cannot be written): `catch (e) { throw e }`.
SwapImageThrows ==
    /\ catalogBuild.pc = "loop"
    /\ catalogBuild.index <= Len(catalogBuild.imagePaths)
    /\ catalogBuild' = [catalogBuild EXCEPT !.pc = "done", !.outcome = "failed",
                                            !.error = catalogBuild.index]
    /\ UNCHANGED <<tileJob, frameJob, manual, run, api, serial>>
    /\ UNCHANGED <<matchVars, poolVars, cacheVars, tallyVars, coordVars, watchVars>>

\* `return swapImageMap`
CatalogReturned ==
    /\ catalogBuild.pc = "loop"
    /\ catalogBuild.index > Len(catalogBuild.imagePaths)
    /\ catalogBuild' = [catalogBuild EXCEPT !.pc = "done", !.outcome = "ok"]
    /\ UNCHANGED <<tileJob, frameJob, manual, run, api, serial>>
    /\ UNCHANGED <<matchVars, poolVars, cacheVars, tallyVars, coordVars, watchVars>>

\* The program is run a second time on the unchanged reference directory:
\* processSwapImages starts over with `new Map()`; the first run's catalog
\* is kept aside for comparison.
BuilderRunsAgain ==
    /\ catalogBuild.pc = "done"
    /\ catalogBuild.outcome = "ok"
    /\ catalogBuild.run = 1
    /\ catalogBuild' = [catalogBuild EXCEPT !.pc = "loop", !.index = 1,
                                            !.swapImageMap = <<>>, !.outcome = "pending",
                                            !.run = 2, !.previous = catalogBuild.swapImageMap]
    /\ UNCHANGED <<tileJob, frameJob, manual, run, api, serial>>
    /\ UNCHANGED <<matchVars, poolVars, cacheVars, tallyVars, coordVars, watchVars>>

NextCatalog ==
    \/ SwapImageProcessed
    \/ SwapImageThrows
    \/ CatalogReturned
    \/ BuilderRunsAgain

SpecCatalog == InitCatalog /\ [][NextCatalog]_vars

\* --------------------------------- processVideo as a whole (main.ts 49-222)

\* The reference directory of the whole-run specification: a brighter image
\* followed by a darker one.
RunSwapImageDirs == {<<Buffer(<<MaxBrightness>>), Buffer(<<0>>)>>}

\* The process is started: nothing of processVideo has run yet.
InitRun ==
    /\ IdleMatch
    /\ cpuCount = MaxCpu
    /\ workerPool = NullPool
    /\ poolTerminated = FALSE
    /\ taskQueue = <<>>
    /\ runningTasks = [w \in Workers |-> {}]
    /\ jobs = <<>>
    /\ imageCache = [w \in Workers |-> [k \in CacheKeys |-> 0]]
    /\ resizeCalls = [k \in CacheKeys |-> 0]
    /\ getDone = [k \in CacheKeys |-> FALSE]
    /\ coordPc = "off"
    /\ frameNames = <<>>
    /\ successCount = 0
    /\ failedFrames = <<>>
    /\ summaryPrinted = FALSE
    /\ revision = "main"
    /\ files = [n \in DirNames |-> IF n = StrayFile THEN "full" ELSE "absent"]
    /\ ffmpeg = "off"
    /\ watcherOpen = FALSE
    /\ statPending = [n \in WatchedFrames |-> 0]
    /\ processedFrames = {}
    /\ frameCount = 0
    /\ awaited = {}
    /\ termThen = "resolve"
    /\ completion = "pending"
    /\ tileJob = [pc |-> "off"]
    /\ frameJob = [pc |-> "off"]
    /\ manual = [pc |-> "off"]
    /\ catalogBuild = [pc |-> "off"]
    /\ run = [pc |-> "reset", exit |-> "none", cause |-> "none", validFrames |-> NULL]
    /\ api = [pc |-> "off"]
    /\ serial = [pc |-> "off"]

\* processVideo's `catch (e) { throw e }` and the top-level call: the
\* rejection of processVideo() ends the process with a non-zero exit code.
RunThrows(cause) == [run EXCEPT !.pc = "exited", !.exit = 1, !.cause = cause]

\* await resetDirectories(), then processSwapImages() is called and lists
\* the reference directory.
RunResetDirectories(ok) ==
    /\ run.pc = "reset"
    /\ IF ok
       THEN /\ run' = [run EXCEPT !.pc = "catalog"]
            /\ \E imagePaths \in RunSwapImageDirs :
                  catalogBuild' = [pc |-> "loop", imagePaths |-> imagePaths, index |-> 1,
                                   swapImageMap |-> <<>>, outcome |-> "pending",
                                   run |-> 1, previous |-> <<>>, error |-> 0]
       ELSE /\ run' = RunThrows("reset")
            /\ UNCHANGED catalogBuild
    /\ UNCHANGED <<tileJob, frameJob, manual, api, serial>>
    /\ UNCHANGED <<matchVars, poolVars, cacheVars, tallyVars, coordVars, watchVars>>

\* `await processSwapImages()` rejects.
RunCatalogFails ==
    /\ run.pc = "catalog"
    /\ catalogBuild.pc = "done"
    /\ catalogBuild.outcome = "failed"
    /\ run' = RunThrows("catalog")
    /\ UNCHANGED <<tileJob, frameJob, manual, catalogBuild, api, serial>>
    /\ UNCHANGED <<matchVars, poolVars, cacheVars, tallyVars, coordVars, watchVars>>

\* `await processSwapImages()` returns the catalog: the pool is initialized,
\* the watcher installed and the frame source started.
RunStartsFrames ==
    /\ run.pc = "catalog"
    /\ catalogBuild.pc = "done"
    /\ catalogBuild.outcome = "ok"
    /\ run' = [run EXCEPT !.pc = "frames"]
    /\ workerPool' = initializeWorkerPool(workerPool, 0, cpuCount)
    /\ watcherOpen' = TRUE
    /\ ffmpeg' = "running"
    /\ coordPc' = "extracting"
    /\ UNCHANGED <<cpuCount, poolTerminated, taskQueue, runningTasks, jobs, frameNames>>
    /\ UNCHANGED <<revision, files, statPending, processedFrames, frameCount, awaited,
                   termThen, completion>>
    /\ UNCHANGED <<tileJob, frameJob, manual, catalogBuild, api, serial>>
    /\ UNCHANGED <<matchVars, cacheVars, tallyVars>>

\* `await processingComplete` throws: reject(err) was called.
RunCompletionRejected ==
    /\ run.pc = "frames"
    /\ completion = "rejected"
    /\ run' = RunThrows("frames")
    /\ UNCHANGED <<tileJob, frameJob, manual, catalogBuild, api, serial>>
    /\ UNCHANGED <<matchVars, poolVars, cacheVars, tallyVars, coordVars, watchVars>>

\* `await processingComplete` returns: readdir(FRAMES_OUT_DIR) is awaited.
RunCompletionResolved ==
    /\ run.pc = "frames"
    /\ completion = "resolved"
    /\ run' = [run EXCEPT !.pc = "outdir"]
    /\ UNCHANGED <<tileJob, frameJob, manual, catalogBuild, api, serial>>
    /\ UNCHANGED <<matchVars, poolVars, cacheVars, tallyVars, coordVars, watchVars>>

\* processedFrameFiles.filter(f => f.endsWith('.png')): the output frames
\* written so far, one per frame with a job that returned.
ValidFrames == {jobs[j].frame : j \in {i \in JobIds : jobs[i].state = "ok"}}

\* readdir(FRAMES_OUT_DIR) settles: with no processed frame processVideo
\* throws 'No processed frames available for video creation', otherwise the
\* encoder is started.
RunReaddirOut(ok) ==
    /\ run.pc = "outdir"
    /\ run' = IF ~ok THEN RunThrows("outdir")
              ELSE IF Cardinality(ValidFrames) = 0
                   THEN [RunThrows("noframes") EXCEPT !.validFrames = 0]
                   ELSE [run EXCEPT !.pc = "encode", !.validFrames = Cardinality(ValidFrames)]
    /\ UNCHANGED <<tileJob, frameJob, manual, catalogBuild, api, serial>>
    /\ UNCHANGED <<matchVars, poolVars, cacheVars, tallyVars, coordVars, watchVars>>

\* The encoder's 'end' or 'error' event: processVideo returns and the
\* process ends normally, or the promise rejects.
RunEncodeEnds(ok) ==
    /\ run.pc = "encode"
    /\ run' = IF ok THEN [run EXCEPT !.pc = "exited", !.exit = 0]
              ELSE RunThrows("encode")
    /\ UNCHANGED <<tileJob, frameJob, manual, catalogBuild, api, serial>>
    /\ UNCHANGED <<matchVars, poolVars, cacheVars, tallyVars, coordVars, watchVars>>

NextRun ==
    \/ \E ok \in BOOLEAN : RunResetDirectories(ok)
    \/ SwapImageProcessed
    \/ SwapImageThrows
    \/ CatalogReturned
    \/ RunCatalogFails
    \/ RunStartsFrames
    \/ NextWatch
    \/ RunCompletionRejected
    \/ RunCompletionResolved
    \/ \E ok \in BOOLEAN : RunReaddirOut(ok)
    \/ \E ok \in BOOLEAN : RunEncodeEnds(ok)

SpecRun == InitRun /\ [][NextRun]_vars

\* ------------------ Frame's static pool under calls in any order (part_002)

\* No call has been made: no pool exists.  The calls are those main.ts
\* makes (initializeWorkerPool, processFrame with its transformAndOutput,
\* terminateWorkerPool), in any order and number, except that every
\* coordinator initializes the pool before it installs a handler that
\* terminates it.
InitPool ==
    /\ IdleMatch
    /\ cpuCount \in 1..MaxCpu
    /\ workerPool = NullPool
    /\ poolTerminated = FALSE
    /\ taskQueue = <<>>
    /\ runningTasks = [w \in Workers |-> {}]
    /\ jobs = <<>>
    /\ imageCache = [w \in Workers |-> [k \in CacheKeys |-> 0]]
    /\ resizeCalls = [k \in CacheKeys |-> 0]
    /\ getDone = [k \in CacheKeys |-> FALSE]
    /\ coordPc = "api"
    /\ frameNames = <<>>
    /\ successCount = 0
    /\ failedFrames = <<>>
    /\ summaryPrinted = FALSE
    /\ revision = "main"
    /\ files = [n \in DirNames |-> "absent"]
    /\ ffmpeg = "off"
    /\ watcherOpen = FALSE
    /\ statPending = [n \in WatchedFrames |-> 0]
    /\ processedFrames = {}
    /\ frameCount = 0
    /\ awaited = {}
    /\ termThen = "resolve"
    /\ completion = "pending"
    /\ tileJob = [pc |-> "off"]
    /\ frameJob = [pc |-> "off"]
    /\ catalogBuild = [pc |-> "off"]
    /\ manual = [pc |-> "off"]
    /\ run = [pc |-> "off"]
    /\ api = [pc |-> "on", calls |-> 0, created |-> 0, terminates |-> 0,
              lastCall |-> "none", arg |-> 0, hadPool |-> FALSE, before |-> NullPool,
              returned |-> NullPool, queueBefore |-> <<>>, jobsBefore |-> 0,
              terminatedBefore |-> FALSE]
    /\ serial = [pc |-> "off"]

\* A call is made: what it is, and what it finds.
ApiCall(name, arg) ==
    [api EXCEPT !.calls = @ + 1, !.lastCall = name, !.arg = arg,
                !.hadPool = workerPool # NullPool, !.before = workerPool,
                !.queueBefore = taskQueue, !.jobsBefore = Len(jobs),
                !.terminatedBefore = poolTerminated]

\* await Frame.initializeWorkerPool(concurrency), concurrency 0 when omitted.
ApiInitialize(concurrency) ==
    /\ api.pc = "on"
    /\ api.calls < MaxApiCalls
    /\ api.terminates = 0
    /\ workerPool' = initializeWorkerPool(workerPool, concurrency, cpuCount)
    /\ api' = [ApiCall("initialize", concurrency) EXCEPT
                 !.created = IF workerPool' = workerPool THEN @ ELSE @ + 1,
                 !.returned = workerPool']
    /\ UNCHANGED <<cpuCount, poolTerminated, taskQueue, runningTasks, jobs>>
    /\ UNCHANGED <<tileJob, frameJob, catalogBuild, manual, run, serial>>
    /\ UNCHANGED <<matchVars, cacheVars, tallyVars, coordVars, watchVars>>

\* processFrame(name) of main.ts up to its await of transformAndOutput.
ApiProcessFrame(name) ==
    /\ api.pc = "on"
    /\ api.calls < MaxApiCalls
    /\ LET st == ProcessFrame(Tally, name, "api")
       IN  /\ ApplyTally(st)
           /\ completion' = st.completion
    /\ api' = ApiCall("transform", 0)
    /\ UNCHANGED <<cpuCount, workerPool, poolTerminated, runningTasks, summaryPrinted>>
    /\ UNCHANGED <<revision, files, ffmpeg, watcherOpen, statPending, awaited, termThen>>
    /\ UNCHANGED <<tileJob, frameJob, catalogBuild, manual, run, serial>>
    /\ UNCHANGED <<matchVars, cacheVars, coordVars>>

\* await Frame.terminateWorkerPool(), called while no other call of it is
\* being awaited.
ApiTerminate ==
    /\ api.pc = "on"
    /\ api.calls < MaxApiCalls
    /\ coordPc \in {"api", "finished"}
    /\ EnterTerminate("resolve")
    /\ api' = [ApiCall("terminate", 0) EXCEPT !.terminates = @ + 1]
    /\ UNCHANGED <<revision, files, ffmpeg, watcherOpen, statPending, processedFrames,
                   frameCount, awaited, frameNames, successCount, failedFrames>>
    /\ UNCHANGED <<tileJob, frameJob, catalogBuild, manual, run, serial>>
    /\ UNCHANGED <<matchVars, poolVars, cacheVars>>

NextPool ==
    \/ \E concurrency \in 0..MaxConcurrencyArg : ApiInitialize(concurrency)
    \/ \E name \in WatchedFrames : ApiProcessFrame(name)
    \/ ApiTerminate
    \/ PoolRunTask
    \/ \E j \in JobIds, ok \in BOOLEAN : WatchJobEnds(j, ok)
    \/ TerminateCompleted
    \/ TerminateResolves
    \/ TerminateTimesOut

SpecPool == InitPool /\ [][NextPool]_vars

\* ----------------------- the serial frame-queue coordinator (part_001 198-266)

\* frameQueue.includes(name)
Includes(queue, name) == \E i \in 1..Len(queue) : queue[i] = name

\* What processFrameQueue reads and writes: the closure's variables, the
\* watcher and processingComplete.
SerialState == [serial |-> serial, watcherOpen |-> watcherOpen, completion |-> completion]

ApplySerial(st) ==
    /\ serial' = st.serial
    /\ watcherOpen' = st.watcherOpen
    /\ completion' = st.completion

\* The head of `while (frameQueue.length > 0)`: shift the next frame and
\* await its transformAndOutput; or, the queue being empty, what follows the
\* loop: isProcessing = false and the check
\* `if (ffmpegComplete && frameQueue.length === 0) { watcher.close(); resolve() }`.
WhileFrameQueue(st) ==
    IF st.serial.frameQueue # <<>>
    THEN [st EXCEPT !.serial.current = Head(st.serial.frameQueue),
                    !.serial.frameQueue = Tail(@),
                    !.serial.loop = "awaiting"]
    ELSE [st EXCEPT !.serial.isProcessing = FALSE,
                    !.serial.loop = "idle",
                    !.serial.current = "none",
                    !.watcherOpen = IF st.serial.ffmpegComplete THEN FALSE ELSE @,
                    !.completion = IF st.serial.ffmpegComplete THEN Resolve(@) ELSE @]

\* processFrameQueue(), from the call to its first await or its return:
\* `if (isProcessing) return; isProcessing = true; while ...`.  `from` is the
\* caller, the fs.watch callback or the 'end' handler.
processFrameQueue(st, from) ==
    IF st.serial.isProcessing THEN st
    ELSE WhileFrameQueue([st EXCEPT !.serial.isProcessing = TRUE, !.serial.caller = from])

InitSerial ==
    /\ IdleMatch
    /\ cpuCount \in 1..MaxCpu
    /\ workerPool = NullPool
    /\ poolTerminated = FALSE
    /\ taskQueue = <<>>
    /\ runningTasks = [w \in Workers |-> {}]
    /\ jobs = <<>>
    /\ imageCache = [w \in Workers |-> [k \in CacheKeys |-> 0]]
    /\ resizeCalls = [k \in CacheKeys |-> 0]
    /\ getDone = [k \in CacheKeys |-> FALSE]
    /\ coordPc = "extracting"
    /\ frameNames = <<>>
    /\ successCount = 0
    /\ failedFrames = <<>>
    /\ summaryPrinted = FALSE
    /\ revision = "serial"
    /\ files = [n \in DirNames |-> IF n = StrayFile THEN "full" ELSE "absent"]
    /\ ffmpeg = "running"
    /\ watcherOpen = TRUE
    /\ statPending = [n \in WatchedFrames |-> 0]
    /\ processedFrames = {}
    /\ frameCount = 0
    /\ awaited = {}
    /\ termThen = "resolve"
    /\ completion = "pending"
    /\ tileJob = [pc |-> "off"]
    /\ frameJob = [pc |-> "off"]
    /\ catalogBuild = [pc |-> "off"]
    /\ manual = [pc |-> "off"]
    /\ run = [pc |-> "off"]
    /\ api = [pc |-> "off"]
    /\ serial = [pc |-> "on", frameQueue |-> <<>>, isProcessing |-> FALSE,
                 ffmpegComplete |-> FALSE, loop |-> "idle", current |-> "none",
                 caller |-> "none", jobsFailed |-> 0, readdirFailed |-> FALSE]

\* stat resolves in the fs.watch callback:
\* `if (size > 0 && !frameQueue.includes(fileName)) { frameQueue.push(fileName);
\* processFrameQueue() }`, the call neither awaited nor caught.
SerialStatResolves(name) ==
    /\ serial.pc = "on"
    /\ statPending[name] > 0
    /\ statPending' = [statPending EXCEPT ![name] = @ - 1]
    /\ IF files[name] = "full" /\ ~Includes(serial.frameQueue, name)
       THEN ApplySerial(processFrameQueue(
                [SerialState EXCEPT !.serial.frameQueue = Append(@, name)], "watch"))
       ELSE UNCHANGED <<serial, watcherOpen, completion>>
    /\ UNCHANGED <<revision, files, ffmpeg, processedFrames, frameCount, awaited, termThen>>
    /\ UNCHANGED <<tileJob, frameJob, catalogBuild, manual, run, api>>
    /\ UNCHANGED <<matchVars, poolVars, cacheVars, tallyVars, coordVars>>

\* `await frameImage.transformAndOutput()` settles.  The frame's own pool
\* ran the job (part_001 134-156): on success the loop goes on with
\* processedFrames.add(framePath); frameCount++ and the next iteration; on a
\* failure transformAndOutput's catch rethrows, nothing in processFrameQueue
\* catches it, and the call ends there, rejected, with isProcessing as it was.
SerialJobEnds(ok) ==
    /\ serial.pc = "on"
    /\ serial.loop = "awaiting"
    /\ IF ok
       THEN /\ processedFrames' = processedFrames \cup {serial.current}
            /\ frameCount' = frameCount + 1
            /\ LET st == WhileFrameQueue(SerialState)
               IN  /\ ApplySerial(st)
                   /\ coordPc' = IF serial.caller = "end" /\ st.serial.loop = "idle"
                                 THEN "handlerReturned" ELSE coordPc
       ELSE /\ serial' = [serial EXCEPT !.loop = "threw", !.jobsFailed = @ + 1]
            /\ coordPc' = IF serial.caller = "end" THEN "handlerThrew" ELSE coordPc
            /\ UNCHANGED <<processedFrames, frameCount, watcherOpen, completion>>
    /\ UNCHANGED <<revision, files, ffmpeg, statPending, awaited, termThen, frameNames>>
    /\ UNCHANGED <<tileJob, frameJob, catalogBuild, manual, run, api>>
    /\ UNCHANGED <<matchVars, poolVars, cacheVars, tallyVars>>

\* The 'end' handler up to its await of readdir: ffmpegComplete = true.
SerialFfmpegEnds ==
    /\ serial.pc = "on"
    /\ ffmpeg = "running"
    /\ \A n \in WatchedFrames : files[n] # "empty"
    /\ ffmpeg' = "ended"
    /\ serial' = [serial EXCEPT !.ffmpegComplete = TRUE]
    /\ coordPc' = "readdir"
    /\ UNCHANGED <<revision, files, watcherOpen, statPending, processedFrames,
                   frameCount, awaited, termThen, completion, frameNames>>
    /\ UNCHANGED <<tileJob, frameJob, catalogBuild, manual, run, api>>
    /\ UNCHANGED <<matchVars, poolVars, cacheVars, tallyVars>>

\* for (const frame of remainingFrames) if (!processedFrames.has(frame) &&
\* !frameQueue.includes(frame) && frame.endsWith('.png')) frameQueue.push(frame)
RECURSIVE SerialRescan(_, _)
SerialRescan(queue, names) ==
    IF names = <<>> THEN queue
    ELSE LET name == Head(names)
         IN  IF /\ files[name] # "absent"
                /\ RescanTakes(name, processedFrames)
                /\ ~Includes(queue, name)
             THEN SerialRescan(Append(queue, name), Tail(names))
             ELSE SerialRescan(queue, Tail(names))

\* readdir resolves in the 'end' handler: the rescan, then
\* `await processFrameQueue()`.
SerialEndRescan ==
    /\ serial.pc = "on"
    /\ coordPc = "readdir"
    /\ LET st == processFrameQueue(
                    [SerialState EXCEPT !.serial.frameQueue = SerialRescan(@, Readdir)],
                    "end")
       IN  /\ ApplySerial(st)
           /\ coordPc' = IF ~serial.isProcessing /\ st.serial.loop = "awaiting"
                         THEN "awaitQueue" ELSE "handlerReturned"
    /\ UNCHANGED <<revision, files, ffmpeg, statPending, processedFrames, frameCount,
                   awaited, termThen, frameNames>>
    /\ UNCHANGED <<tileJob, frameJob, catalogBuild, manual, run, api>>
    /\ UNCHANGED <<matchVars, poolVars, cacheVars, tallyVars>>

\* readdir rejects: the 'end' handler ends there, nothing catches it.
SerialReaddirRejects ==
    /\ serial.pc = "on"
    /\ coordPc = "readdir"
    /\ coordPc' = "handlerThrew"
    /\ serial' = [serial EXCEPT !.readdirFailed = TRUE]
    /\ UNCHANGED <<revision, files, ffmpeg, watcherOpen, statPending, processedFrames,
                   frameCount, awaited, termThen, completion, frameNames>>
    /\ UNCHANGED <<tileJob, frameJob, catalogBuild, manual, run, api>>
    /\ UNCHANGED <<matchVars, poolVars, cacheVars, tallyVars>>

\* The 'error' handler: watcher.close(); reject(err).
SerialFfmpegErrors ==
    /\ serial.pc = "on"
    /\ ffmpeg = "running"
    /\ ffmpeg' = "error"
    /\ watcherOpen' = FALSE
    /\ completion' = Reject(completion)
    /\ UNCHANGED <<revision, files, statPending, processedFrames, frameCount,
                   awaited, termThen>>
    /\ UNCHANGED <<stageVars, matchVars, poolVars, cacheVars, tallyVars, coordVars>>

NextSerial ==
    \/ \E i \in 1..MaxWatchedFrames : FfmpegCreatesFrame(i)
    \/ \E i \in 1..MaxWatchedFrames : FfmpegFillsFrame(i)
    \/ \E n \in DirNames : WatchEvent(n)
    \/ \E n \in WatchedFrames : SerialStatResolves(n)
    \/ \E n \in WatchedFrames : StatRejects(n)
    \/ \E ok \in BOOLEAN : SerialJobEnds(ok)
    \/ SerialFfmpegEnds
    \/ SerialEndRescan
    \/ SerialReaddirRejects
    \/ SerialFfmpegErrors

SpecSerial == InitSerial /\ [][NextSerial]_vars

\* An awaited promise settles and the event loop runs what waits on it: the
\* frame job in flight, a pending stat, the pending readdir.  The frame
\* source and the watch events owe the coordinator nothing.
SerialFairness ==
    /\ WF_vars(\E ok \in BOOLEAN : SerialJobEnds(ok))
    /\ WF_vars(\E n \in WatchedFrames : SerialStatResolves(n) \/ StatRejects(n))
    /\ WF_vars(SerialEndRescan \/ SerialReaddirRejects)

SpecSerialFair == SpecSerial /\ SerialFairness

\* ================================================================== claims

\* C1: with a pool initialized with concurrency limit K, at every moment at
\* most K frame jobs are running at once.
C1_AtMostKRunning ==
    workerPool # NullPool => Cardinality(RunningJobs) <= workerPool.concurrency

\* C2: in the watcher-driven coordinator no frame file is dispatched to
\* processFrame more than once during a run.
C2_NoFrameDispatchedTwice ==
    \A name \in WatchedFrames : Cardinality(JobsOf(jobs, name)) <= 1

\* C3: when completion is signaled (processingComplete resolves), every .png
\* frame file the frame source produced has been dispatched as a job on the
\* pool, and that job is among those the handler waited for.
C3_EveryFrameDispatched ==
    completion = "resolved" =>
        \A name \in WatchedFrames :
            files[name] # "absent" =>
                \E j \in awaited : jobs[j].frame = name /\ jobs[j].worker # 0 /\ Settled(j)

\* Completion was signaled and some frame was dispatched by the rescan only:
\* the watcher never dispatched it (event missed, file empty, stat failed).
C3_Witness ==
    /\ completion = "resolved"
    /\ \E name \in WatchedFrames :
          /\ files[name] = "full"
          /\ JobsOf(jobs, name) # {}
          /\ \A j \in JobsOf(jobs, name) : jobs[j].via = "rescan"

\* C4: a failed frame job is recorded as a failure of its frame and does not
\* stop the coordinator: unless the frame source or the directory listing
\* failed, the run is not rejected.
C4_FailureDoesNotStopRun ==
    \A j \in JobIds :
        jobs[j].state = "failed" =>
            /\ \E i \in 1..Len(failedFrames) : failedFrames[i] = jobs[j].frame
            /\ termThen = "resolve" => completion # "rejected"

\* C5: when the summary is printed no frame job is outstanding, and the pool
\* has been terminated and its handle released.
C5_DrainedAndReleasedAtSummary ==
    summaryPrinted =>
        /\ \A j \in JobIds : Settled(j)
        /\ poolTerminated
        /\ workerPool = NullPool

\* C6: for every cache key the resize is invoked at most once during a run.
C6_ResizeAtMostOncePerKey ==
    \A k \in CacheKeys : resizeCalls[k] <= 1

\* C7: once a get for a key has completed, a later get for the same key does
\* not run the resize again.
C7_LaterGetDoesNotResize ==
    \A j \in JobIds : ~(jobs[j].late /\ jobs[j].pc = "resizing")

\* C8: the cache is one store shared by every frame job of the run, whichever
\* worker executes it: the workers of the pool see the same entries.
C8_OneSharedStore ==
    \A w1, w2 \in 1..workerPool.size : \A k \in CacheKeys :
        (imageCache[w1][k] # 0) = (imageCache[w2][k] # 0)

Delta(i) == Abs(imageMapArray[i][1] - meanTileBrightness)

\* The result is the path of entry i, entry i has the minimal delta, and
\* every earlier entry has a strictly larger delta.
IsFirstNearest(result, i) ==
    /\ result = imageMapArray[i][2]
    /\ \A j \in 1..Len(imageMapArray) : Delta(j) >= Delta(i)
    /\ \A j \in 1..(i - 1) : Delta(j) > Delta(i)

\* C9: for every non-empty catalog and target, matchNearestImage returns the
\* path of an entry with minimal |brightness - b|, and among entries sharing
\* the minimal delta the first-inserted one.
C9_NearestFirstInserted ==
    (matchPc = "done" /\ Len(imageMapArray) > 0) =>
        \E i \in 1..Len(imageMapArray) : IsFirstNearest(matchResult, i)

\* A tie happened: two entries share the minimal delta and the first one won.
C9_Witness ==
    /\ matchPc = "done"
    /\ \E i, j \in 1..Len(imageMapArray) :
          /\ i < j
          /\ Delta(i) = Delta(j)
          /\ IsFirstNearest(matchResult, i)

\* C10: for every non-empty catalog and every target, also one greater than
\* or equal to every catalog brightness, both matchers return the path of a
\* catalog entry, never none.
C10_BothSidesNeverNone ==
    (matchPc = "done" /\ Len(imageMapArray) > 0) =>
        /\ matchResult # UNDEFINED
        /\ mapMatchResult # UNDEFINED
        /\ \E i \in 1..Len(imageMapArray) : matchResult = imageMapArray[i][2]
        /\ \E i \in 1..Len(imageMapArray) : mapMatchResult = imageMapArray[i][2]

\* The target is at least every catalog brightness and a path came back.
C10_Witness ==
    /\ matchPc = "done"
    /\ Len(imageMapArray) > 1
    /\ \A i \in 1..Len(imageMapArray) : imageMapArray[i][1] <= meanTileBrightness
    /\ matchResult # UNDEFINED
    /\ mapMatchResult # UNDEFINED

\* C11: for an empty catalog matchNearestImage returns none for every target
\* brightness, and the tile pass then registers no placement.
C11_EmptyCatalogNoPlacement ==
    (tileJob.pc = "done" /\ Len(imageMapArray) = 0) =>
        /\ ~tileJob.result.mean.threw => tileJob.result.nearestImage = UNDEFINED
        /\ tileJob.result.placements = <<>>
        /\ tileJob.result.cache = {}

\* A tile with a mean was matched against the empty catalog.
C11_Witness ==
    /\ tileJob.pc = "done"
    /\ Len(imageMapArray) = 0
    /\ ~tileJob.result.mean.threw
    /\ tileJob.result.mean.meanBrightness > 0
    /\ tileJob.result.outcome = "none"

\* C12: with catalog [(50, "dark.png"), (200, "bright.png")], a tile with mean
\* brightness 130 matches "dark.png".
C12_Mean130MatchesDark ==
    (matchPc = "done" /\ meanTileBrightness = 130) => matchResult = "dark.png"

\* C12 as amended: with that catalog a tile with mean brightness 130 matches
\* "bright.png", the entry with the smaller delta (70 against 80).
C12_Mean130MatchesBright ==
    (matchPc = "done" /\ meanTileBrightness = 130) =>
        matchResult = "bright.png" /\ mapMatchResult = "bright.png"

\* The target 130 was matched against the example catalog.
C12_Witness ==
    /\ matchPc = "done"
    /\ imageMapArray = ScenarioCatalog
    /\ meanTileBrightness = 130
    /\ matchResult = "bright.png"

\* C13: with catalog [(50, "dark.png"), (200, "bright.png")], a tile with mean
\* brightness 60 matches "dark.png".
C13_Mean60MatchesDark ==
    (matchPc = "done" /\ meanTileBrightness = 60) =>
        matchResult = "dark.png" /\ mapMatchResult = "dark.png"

\* The target 60 was matched against the example catalog.
C13_Witness ==
    /\ matchPc = "done"
    /\ imageMapArray = ScenarioCatalog
    /\ meanTileBrightness = 60
    /\ matchResult = "dark.png"

\* The tile loop of the frame job has run to its end.
TilesComplete ==
    \/ frameJob.pc = "save"
    \/ frameJob.pc = "done" /\ frameJob.cause \in {"none", "save"}

\* The least n with n * b >= a.
CeilDiv(a, b) == CHOOSE n \in 0..a : n * b >= a /\ (n - 1) * b < a

\* Pixel (px, py) lies in tile t.
InTile(px, py, t) ==
    /\ t.x <= px /\ px < t.x + t.width
    /\ t.y <= py /\ py < t.y + t.height

\* C14: for every frame width W > 0, height H > 0 and tile size T > 0 the
\* tile loop produces exactly ceil(W/T)*ceil(H/T) tiles, no two tiles overlap,
\* and every pixel of [0,W)x[0,H) lies in exactly one tile.
C14_TilesPartitionFrame ==
    TilesComplete =>
        LET W == frameJob.width
            H == frameJob.height
            T == frameJob.TILE_SIZE
            tiles == frameJob.tiles
        IN  /\ Len(tiles) = CeilDiv(W, T) * CeilDiv(H, T)
            /\ \A i \in 1..Len(tiles) :
                  /\ tiles[i].width >= 1 /\ tiles[i].height >= 1
                  /\ tiles[i].x >= 0 /\ tiles[i].x + tiles[i].width <= W
                  /\ tiles[i].y >= 0 /\ tiles[i].y + tiles[i].height <= H
            /\ \A i, j \in 1..Len(tiles) :
                  i # j => ~\E px \in 0..(W - 1), py \in 0..(H - 1) :
                               InTile(px, py, tiles[i]) /\ InTile(px, py, tiles[j])
            /\ \A px \in 0..(W - 1), py \in 0..(H - 1) :
                  Cardinality({i \in 1..Len(tiles) : InTile(px, py, tiles[i])}) = 1

\* A frame with clipped tiles on both axes was decomposed.
C14_Witness ==
    /\ TilesComplete
    /\ frameJob.width = MaxDim
    /\ frameJob.height = MaxDim
    /\ frameJob.width % frameJob.TILE_SIZE # 0
    /\ Len(frameJob.tiles) > 1

\* The geometry of the tiles emitted so far, in emission order.
TileRects == [i \in 1..Len(frameJob.tiles) |->
                <<frameJob.tiles[i].x, frameJob.tiles[i].y,
                  frameJob.tiles[i].width, frameJob.tiles[i].height>>]

\* C15: a frame of 18x18 pixels with tile size 16 decomposes into exactly the
\* four tiles (0,0,16,16), (16,0,2,16), (0,16,16,2), (16,16,2,2), emitted in
\* that row-major order.
C15_Scenario18By18 ==
    (/\ TilesComplete
     /\ frameJob.width = 18 /\ frameJob.height = 18 /\ frameJob.TILE_SIZE = 16) =>
        TileRects = <<<<0, 0, 16, 16>>, <<16, 0, 2, 16>>, <<0, 16, 16, 2>>, <<16, 16, 2, 2>>>>

\* The 18x18 frame was decomposed and written.
C15_Witness ==
    /\ frameJob.pc = "done"
    /\ frameJob.outcome = "ok"
    /\ frameJob.width = 18 /\ frameJob.height = 18 /\ frameJob.TILE_SIZE = 16
    /\ Len(frameJob.tiles) = 4

\* C16: for every non-empty grayscale buffer whose bytes all equal v,
\* deriveMeanBrightness returns exactly v.
C16_UniformBufferMeanIsValue ==
    (/\ tileJob.pc = "done"
     /\ tileJob.raw.defined
     /\ Len(tileJob.raw.bytes) > 0
     /\ \A i \in 1..Len(tileJob.raw.bytes) : tileJob.raw.bytes[i] = tileJob.raw.bytes[1]) =>
        /\ ~tileJob.result.mean.threw
        /\ tileJob.result.mean.meanBrightness = tileJob.raw.bytes[1]

\* A uniform buffer of several bytes of the highest intensity was averaged.
C16_Witness ==
    /\ tileJob.pc = "done"
    /\ tileJob.raw.defined
    /\ Len(tileJob.raw.bytes) > 1
    /\ \A i \in 1..Len(tileJob.raw.bytes) : tileJob.raw.bytes[i] = MaxByte
    /\ tileJob.result.mean.meanBrightness = MaxByte

\* C17: deriveMeanBrightness on a zero-length or missing buffer fails with an
\* error and performs no division; the tile pass treats the failure as no
\* match: no placement is registered and nothing is thrown on to the frame job.
C17_EmptyInputIsNoMatch ==
    (tileJob.pc = "done" /\ (~tileJob.raw.defined \/ Len(tileJob.raw.bytes) = 0)) =>
        /\ tileJob.result.mean.threw
        /\ tileJob.result.mean.divisions = 0
        /\ tileJob.result.nearestImage = UNDEFINED
        /\ tileJob.result.placements = <<>>
        /\ ~tileJob.result.thrown

\* A zero-length buffer met a non-empty catalog and the tile was skipped.
C17_Witness ==
    /\ tileJob.pc = "done"
    /\ tileJob.raw.defined
    /\ Len(tileJob.raw.bytes) = 0
    /\ Len(imageMapArray) > 0
    /\ tileJob.result.outcome = "error"
    /\ ~tileJob.result.thrown

\* Only a failure of the whole frame (reading or decoding it, missing
\* dimensions, writing the output) makes the frame job fail.
FrameLevelCauses == {"read", "dimensions", "save"}

\* C18: a failure while processing one tile is swallowed: that tile gets no
\* placement, the remaining tiles are still processed in raster order, the
\* output frame is still written and the frame job does not fail for it.
C18_TileFailureSwallowed ==
    frameJob.pc # "off" =>
        LET tiles == frameJob.tiles
            ops == frameJob.compositeOperations
            T == frameJob.TILE_SIZE
        IN  /\ frameJob.outcome = "failed" => frameJob.cause \in FrameLevelCauses
            /\ \A i \in 1..Len(tiles) :
                  tiles[i].outcome = "error" =>
                      ~\E k \in 1..Len(ops) : ops[k].left = tiles[i].x /\ ops[k].top = tiles[i].y
            /\ \A i \in 1..Len(tiles) :
                  /\ tiles[i].x = ((i - 1) % frameJob.tilesX) * T
                  /\ tiles[i].y = ((i - 1) \div frameJob.tilesX) * T
            /\ TilesComplete => Len(tiles) = frameJob.tilesX * frameJob.tilesY
            /\ frameJob.outcome = "ok" =>
                  /\ Len(frameJob.output) = 1
                  /\ frameJob.output[1].composite = ops

\* A tile failed, a later tile was placed, and the frame was written.
C18_Witness ==
    /\ frameJob.pc = "done"
    /\ frameJob.outcome = "ok"
    /\ \E i, j \in 1..Len(frameJob.tiles) :
          /\ i < j
          /\ frameJob.tiles[i].outcome = "error"
          /\ frameJob.tiles[j].outcome = "placed"

\* C19: with an empty catalog every tile's match is none, zero placements are
\* registered, and the frame job writes a blank canvas with the source
\* frame's width and height; it fails only when the frame itself cannot be
\* read or written.
C19_EmptyCatalogBlankFrame ==
    (frameJob.pc # "off" /\ Len(imageMapArray) = 0) =>
        /\ frameJob.compositeOperations = <<>>
        /\ \A i \in 1..Len(frameJob.tiles) : frameJob.tiles[i].outcome = "none"
        /\ frameJob.outcome = "failed" => frameJob.cause \in FrameLevelCauses
        /\ frameJob.outcome = "ok" =>
              frameJob.output = <<[width |-> frameJob.width, height |-> frameJob.height,
                                   composite |-> <<>>]>>

\* A frame of several tiles, wider than high or higher than wide, was
\* written against the empty catalog.
C19_Witness ==
    /\ frameJob.pc = "done"
    /\ frameJob.outcome = "ok"
    /\ Len(imageMapArray) = 0
    /\ Len(frameJob.tiles) > 1
    /\ frameJob.width # frameJob.height

\* The exact mean of the i-th reference image's buffer (sum over length).
ExactMean(i) ==
    LET bytes == catalogBuild.imagePaths[i].bytes
    IN  IF Len(bytes) = 1 THEN bytes[1] ELSE (bytes[1] + bytes[2]) \div 2

\* The images processed so far.
ProcessedImages == 1..(catalogBuild.index - 1)

\* C20: the catalog holds at most one path per exact brightness value; for a
\* brightness produced by several reference images the retained path is that
\* of the first image processed, and a later image with the same brightness
\* leaves the catalog unchanged.
C20_FirstSeenPathRetained ==
    /\ [](catalogBuild.pc # "off" =>
            LET map == catalogBuild.swapImageMap
            IN  /\ \A a, b \in 1..Len(map) : map[a][1] = map[b][1] => a = b
                /\ \A a \in 1..Len(map) : \E i \in ProcessedImages : map[a][1] = ExactMean(i)
                /\ \A i \in ProcessedImages :
                      \E a \in 1..Len(map) :
                          /\ map[a][1] = ExactMean(i)
                          /\ map[a][2] = PathOf(CHOOSE j \in ProcessedImages :
                                                  /\ ExactMean(j) = ExactMean(i)
                                                  /\ \A k \in ProcessedImages :
                                                        ExactMean(k) = ExactMean(i) => j <= k))
    /\ [][(/\ catalogBuild.pc = "loop"
           /\ catalogBuild'.pc = "loop"
           /\ \E j \in ProcessedImages : ExactMean(j) = ExactMean(catalogBuild.index))
          => catalogBuild'.swapImageMap = catalogBuild.swapImageMap]_vars

\* The build returned a catalog after two images of one brightness, a
\* different image between them, and the first one's path is retained.
C20_Witness ==
    /\ catalogBuild.pc = "done"
    /\ catalogBuild.outcome = "ok"
    /\ \E i, j \in ProcessedImages :
          /\ i < j
          /\ ExactMean(i) = ExactMean(j)
          /\ catalogBuild.imagePaths[i] # catalogBuild.imagePaths[j]
          /\ <<ExactMean(i), PathOf(i)>> \in {catalogBuild.swapImageMap[a] :
                                                a \in 1..Len(catalogBuild.swapImageMap)}

\* C25: with no explicit concurrency, the K chosen by initializeWorkerPool is
\* at least 1 and strictly below the detected CPU core count.
C25_DefaultKBelowCoreCount ==
    (coordPc # "off" /\ workerPool # NullPool) =>
        /\ workerPool.concurrency >= 1
        /\ workerPool.concurrency < cpuCount

ResizePending(key, buffer) ==
    \E j \in JobIds : jobs[j].pc = "resizing" /\ jobs[j].key = key /\ jobs[j].buffer = buffer

\* C27: a key is visible in the cache only with the buffer of a resize that
\* has completed, and every get returns such a complete buffer, under any
\* interleaving of concurrent gets.
C27_NoPartialEntry ==
    /\ \A w \in Workers : \A k \in CacheKeys :
          imageCache[w][k] # 0 =>
              /\ imageCache[w][k] \in 1..resizeCalls[k]
              /\ ~ResizePending(k, imageCache[w][k])
    /\ \A j \in JobIds :
          jobs[j].returned # <<>> =>
              /\ jobs[j].returned[2] \in 1..resizeCalls[jobs[j].returned[1]]
              /\ ~ResizePending(jobs[j].returned[1], jobs[j].returned[2])

\* One get has returned its key's buffer while a concurrent get of the same
\* key on the same worker still awaits its own resize.
C27_Witness ==
    \E i, j \in JobIds :
        /\ i # j
        /\ jobs[i].worker = jobs[j].worker
        /\ jobs[i].returned # <<>>
        /\ jobs[j].pc = "resizing"
        /\ jobs[j].key = jobs[i].returned[1]
        /\ imageCache[jobs[i].worker][jobs[j].key] = jobs[i].returned[2]

C29_ActiveSetBounded ==
    manual.pc = "on" => Cardinality(manual.activeProcessing) <= MAX_CONCURRENT_FRAMES

\* The set is full while a call from the watcher and a call from the rescan
\* both wait.
C29_Witness ==
    /\ manual.pc = "on"
    /\ Cardinality(manual.activeProcessing) = MAX_CONCURRENT_FRAMES
    /\ \E c, d \in 1..Len(manual.calls) :
          /\ manual.calls[c].state = "waiting" /\ manual.calls[c].via = "watch"
          /\ manual.calls[d].state = "waiting" /\ manual.calls[d].via = "rescan"

\* C30: a frame waiting in processFrameQueue because the set is full is
\* started once a running job has completed, whether that job succeeded or
\* failed: it waits only while the set is full and its call is never
\* abandoned; and a completed job is always removed from activeProcessing.
C30_WaitingFrameStarted ==
    manual.pc = "on" =>
        /\ \A c \in 1..Len(manual.calls) : manual.calls[c].state # "rejected"
        /\ (\E c \in 1..Len(manual.calls) : manual.calls[c].state = "waiting") =>
              ~SlotFree(manual.activeProcessing)
        /\ \A j \in manual.activeProcessing : ~Settled(j)

\* C21: if a reference image fails during the catalog build, the build
\* aborts at that image with its error, no catalog is returned, and no frame
\* extraction, pool creation or frame job is started in that run, which ends
\* with the error.
C21_CatalogFailureAbortsRun ==
    (catalogBuild.pc # "off" /\ catalogBuild.error # 0) =>
        /\ catalogBuild.pc = "done"
        /\ catalogBuild.outcome = "failed"
        /\ catalogBuild.index = catalogBuild.error
        /\ SwapImageMap = <<>>
        /\ run.pc \in {"catalog", "exited"}
        /\ run.pc = "exited" => (run.exit = 1 /\ run.cause = "catalog")
        /\ ffmpeg = "off"
        /\ ~watcherOpen
        /\ workerPool = NullPool
        /\ jobs = <<>>

\* The second reference image failed after the first had been inserted, and
\* the run has ended.
C21_Witness ==
    /\ run.pc = "exited"
    /\ catalogBuild.pc = "done"
    /\ catalogBuild.error = 2
    /\ Len(catalogBuild.swapImageMap) = 1

\* The catalog build has returned its catalog.
CatalogBuilt == catalogBuild.pc = "done" /\ catalogBuild.outcome = "ok"

\* C22: once the catalog build has returned, no later step adds, removes or
\* changes a catalog entry, and every frame job of the run is handed the same
\* sequence of (brightness, path) pairs in the same order.
C22_CatalogReadOnlyAfterBuild ==
    /\ [](CatalogBuilt =>
            \A j \in JobIds : jobs[j].imageMapArray = catalogBuild.swapImageMap)
    /\ [][CatalogBuilt => catalogBuild' = catalogBuild]_vars

\* The summary is printed after jobs of two frames were handed a catalog of
\* two entries that is not in brightness order.
C22_Witness ==
    /\ CatalogBuilt
    /\ summaryPrinted
    /\ Len(catalogBuild.swapImageMap) = 2
    /\ catalogBuild.swapImageMap[1][1] > catalogBuild.swapImageMap[2][1]
    /\ \E i, j \in JobIds :
          /\ jobs[i].frame # jobs[j].frame
          /\ jobs[i].state = "ok"
          /\ Settled(j)

\* C23 as stated: a catalog-build failure and a final-encode failure end the
\* run with a non-zero exit code, and frame failures never do so on their own.
C23_FrameFailuresNeverEndRun ==
    run.pc = "exited" =>
        /\ run.cause \in {"catalog", "encode"} => run.exit = 1
        /\ ~(run.exit = 1 /\ run.cause = "noframes" /\ failedFrames # <<>>)

\* C23: a catalog-build failure and a final-encode failure end the run with a
\* non-zero exit code; frame failures do not reject the run, and end it with a
\* non-zero exit code only when they leave no processed frame at all, in
\* which case the run fails before encoding.
C23_FrameFailuresEndRunOnlyWithoutFrames ==
    /\ (catalogBuild.pc = "done" /\ catalogBuild.outcome = "failed" /\ run.pc = "exited")
          => run.exit = 1
    /\ run.pc = "exited" =>
          /\ run.cause = "encode" => run.exit = 1
          /\ run.exit = 1 =>
                \/ run.cause \in {"reset", "catalog", "outdir", "encode"}
                \/ run.cause = "frames" /\ termThen = "reject"
                \/ run.cause = "noframes" /\ run.validFrames = 0
          /\ (run.exit = 1 /\ run.validFrames > 0) => run.cause = "encode"

\* One frame failed, another was processed, and the run ended normally.
C23_Witness ==
    /\ run.pc = "exited"
    /\ run.exit = 0
    /\ failedFrames # <<>>
    /\ successCount > 0

\* C24: when the frame source reports an error, the watcher is closed, the
\* worker pool is terminated and its handle released, the run ends in failure
\* and re-encoding never starts; no live pool is left behind.
C24_SourceErrorTearsDown ==
    ffmpeg = "error" =>
        /\ ~watcherOpen
        /\ run.pc \notin {"outdir", "encode"}
        /\ run.pc = "exited" => run.exit = 1
        /\ coordPc = "finished" =>
              /\ completion = "rejected"
              /\ workerPool = NullPool
              /\ poolTerminated

\* The "Total frames" figure of the summary: frameNames.length in the
\* Promise.all coordinator, frameCount in the watcher-driven one.
SummaryTotal == IF revision = "none" THEN Len(frameNames) ELSE frameCount

\* The distinct frame files the frame source has written.
ExtractedFrames ==
    IF revision = "none" THEN {frameNames[i] : i \in 1..Len(frameNames)}
    ELSE {n \in WatchedFrames : files[n] # "absent"}

\* What the summary reports is one outcome per extracted frame.
OneOutcomePerFrame ==
    /\ SummaryTotal = successCount + Len(failedFrames)
    /\ \A i \in 1..Len(failedFrames) :
          ~\E j \in JobIds : jobs[j].frame = failedFrames[i] /\ jobs[j].state = "ok"
    /\ SummaryTotal = Cardinality(ExtractedFrames)
    /\ \A n \in ExtractedFrames :
          /\ Cardinality(JobsOf(jobs, n)) = 1
          /\ \A j \in JobsOf(jobs, n) : Settled(j)

\* C31: at the step that reports the run summary, every dispatched frame has
\* exactly one recorded outcome: total = succeeded + failed, no frame is
\* counted as both, and total is the number of distinct frame files extracted.
C31_SummaryCountsEachFrameOnce ==
    [][(~summaryPrinted /\ summaryPrinted') => OneOutcomePerFrame']_vars

\* The encoder has been started (it runs, or the run ended after it).
EncodingStarted ==
    \/ run.pc = "encode"
    \/ run.pc = "exited" /\ (run.exit = 0 \/ run.cause = "encode")

\* C32: re-encoding starts only after completion has been signaled, never
\* while a dispatched frame job is still queued or running; and when no
\* processed frame file exists at that point the run fails with an error and
\* encoding is never started.
C32_EncodeOnlyAfterDrain ==
    /\ EncodingStarted =>
          /\ completion = "resolved"
          /\ \A j \in JobIds : Settled(j)
          /\ run.validFrames > 0
    /\ run.validFrames = 0 =>
          /\ run.pc = "exited"
          /\ run.exit = 1
          /\ run.cause = "noframes"

\* C33: for W > 0, H > 0, T > 0 every emitted tile has 1 <= width <= T,
\* 1 <= height <= T, x + width <= W and y + height <= H; only tiles of the
\* last column can be narrower than T and only tiles of the last row lower.
C33_TileExtentsWithinBounds ==
    frameJob.pc # "off" =>
        LET W == frameJob.width
            H == frameJob.height
            T == frameJob.TILE_SIZE
            tiles == frameJob.tiles
        IN  \A i \in 1..Len(tiles) :
               /\ 1 <= tiles[i].width /\ tiles[i].width <= T
               /\ 1 <= tiles[i].height /\ tiles[i].height <= T
               /\ tiles[i].x + tiles[i].width <= W
               /\ tiles[i].y + tiles[i].height <= H
               /\ tiles[i].width < T => tiles[i].x = (frameJob.tilesX - 1) * T
               /\ tiles[i].height < T => tiles[i].y = (frameJob.tilesY - 1) * T

\* A frame whose last column and last row are clipped was decomposed: it has
\* a full tile, a narrower one and a lower one.
C33_Witness ==
    /\ TilesComplete
    /\ \E i, j, k \in 1..Len(frameJob.tiles) :
          /\ frameJob.tiles[i].width = frameJob.TILE_SIZE
          /\ frameJob.tiles[i].height = frameJob.TILE_SIZE
          /\ frameJob.tiles[j].width < frameJob.TILE_SIZE
          /\ frameJob.tiles[k].height < frameJob.TILE_SIZE

\* The tile a placement was registered for: the one with its origin.
TileOf(k) ==
    CHOOSE i \in 1..Len(frameJob.tiles) :
        /\ frameJob.tiles[i].x = frameJob.compositeOperations[k].left
        /\ frameJob.tiles[i].y = frameJob.compositeOperations[k].top

\* C34: the placement list of a frame holds at most one placement per tile,
\* each at its tile's (x, y) and requested from the cache with that tile's
\* clipped width and height, in raster order; the reported matched count is
\* the number of placements, lies between 0 and the total tile count, and
\* equals the total when the catalog is non-empty and no tile fails.
C34_PlacementsFollowTiles ==
    frameJob.pc # "off" =>
        LET tiles == frameJob.tiles
            ops == frameJob.compositeOperations
        IN  /\ \A k \in 1..Len(ops) :
                  /\ \E i \in 1..Len(tiles) :
                        tiles[i].x = ops[k].left /\ tiles[i].y = ops[k].top
                  /\ ops[k].input[2] = tiles[TileOf(k)].width
                  /\ ops[k].input[3] = tiles[TileOf(k)].height
                  /\ tiles[TileOf(k)].outcome = "placed"
            /\ \A k, l \in 1..Len(ops) : k < l => TileOf(k) < TileOf(l)
            /\ frameJob.matchRate.totalTiles # NULL =>
                  /\ frameJob.matchRate.matched = Len(ops)
                  /\ frameJob.matchRate.totalTiles = Len(tiles)
                  /\ 0 <= frameJob.matchRate.matched
                  /\ frameJob.matchRate.matched <= frameJob.matchRate.totalTiles
                  /\ (/\ Len(imageMapArray) > 0
                      /\ \A i \in 1..Len(tiles) : tiles[i].outcome # "error") =>
                        frameJob.matchRate.matched = frameJob.matchRate.totalTiles

\* A frame of several tiles with a clipped one was written: one tile failed,
\* the others were placed, and the reported count is below the total.
C34_Witness ==
    /\ frameJob.pc = "done"
    /\ frameJob.outcome = "ok"
    /\ Len(frameJob.compositeOperations) >= 2
    /\ frameJob.matchRate.matched = Len(frameJob.tiles) - 1
    /\ \E k \in 1..Len(frameJob.compositeOperations) :
          frameJob.compositeOperations[k].input[2] < frameJob.TILE_SIZE

\* C35: a frame whose decoded metadata lacks a width or a height (missing or
\* zero) makes the frame job fail before any tile is processed and before any
\* output file is written, and the coordinator records that frame as failed.
C35_NoDimensionsFailsFrame ==
    (/\ frameJob.pc # "off"
     /\ (frameJob.width \in {NULL, 0} \/ frameJob.height \in {NULL, 0})) =>
        /\ frameJob.tiles = <<>>
        /\ frameJob.compositeOperations = <<>>
        /\ frameJob.output = <<>>
        /\ frameJob.pc \in {"read", "done"}
        /\ frameJob.pc = "done" =>
              /\ frameJob.outcome = "failed"
              /\ frameJob.cause \in {"read", "dimensions"}
        /\ frameJob.settled =>
              /\ failedFrames = <<frameJob.frame>>
              /\ successCount = 0
              /\ completion = "pending"

\* A frame with a width but no height was decoded, its job threw at the
\* dimension check, and the coordinator has recorded the failure.
C35_Witness ==
    /\ frameJob.pc = "done"
    /\ frameJob.settled
    /\ frameJob.cause = "dimensions"
    /\ frameJob.width > 0
    /\ frameJob.height \in {NULL, 0}
    /\ failedFrames = <<frameJob.frame>>

\* C36: the payload the dispatcher queues delivers the job's input path and
\* output path to the worker: for every dispatched job the worker's
\* processFrame reads the frame at the job's input path and writes the
\* composite to the job's output path.
C36_PayloadDeliversPaths ==
    frameJob.pc \notin {"off", "new"} =>
        /\ frameJob.framePath = FramesDirPath(frameJob.frame)
        /\ frameJob.frameOutPath = FramesOutDirPath(frameJob.frame)
        /\ frameJob.readFrom \in {UNDEFINED, FramesDirPath(frameJob.frame)}
        /\ frameJob.outcome = "ok" => frameJob.wroteTo = FramesOutDirPath(frameJob.frame)

\* C37: there is at most one worker pool per process: a call of
\* initializeWorkerPool while a pool exists creates no second pool, returns
\* the existing one and leaves its concurrency unchanged, whatever
\* concurrency argument is passed.
C37_InitializeKeepsExistingPool ==
    api.pc = "on" =>
        /\ api.created <= 1
        /\ (api.lastCall = "initialize" /\ api.hadPool) =>
              /\ workerPool = api.before
              /\ workerPool.concurrency = api.before.concurrency
              /\ api.returned = api.before

\* initializeWorkerPool was called with a concurrency other than the existing
\* pool's while the pool was running a job.
C37_Witness ==
    /\ api.pc = "on"
    /\ api.lastCall = "initialize"
    /\ api.hadPool
    /\ api.arg # 0
    /\ api.arg # workerPool.concurrency
    /\ RunningJobs # {}

\* C38: Frame.transformAndOutput called while no pool exists (before
\* initializeWorkerPool, or after terminateWorkerPool) fails with an error,
\* queues no job, and leaves the pool handle null.
C38_NoPoolNoJob ==
    (api.pc = "on" /\ api.lastCall = "transform" /\ ~api.hadPool) =>
        /\ workerPool = NullPool
        /\ taskQueue = api.queueBefore
        /\ Len(jobs) = api.jobsBefore + 1
        /\ jobs[Len(jobs)].state = "failed"
        /\ jobs[Len(jobs)].worker = 0
        /\ \E i \in 1..Len(failedFrames) : failedFrames[i] = jobs[Len(jobs)].frame
        /\ \A w \in Workers : Len(jobs) \notin runningTasks[w]

\* A frame was dispatched after terminateWorkerPool had returned, in a run
\* whose pool had processed another frame.
C38_Witness ==
    /\ api.pc = "on"
    /\ api.lastCall = "transform"
    /\ ~api.hadPool
    /\ api.created = 1
    /\ coordPc = "finished"
    /\ successCount = 1
    /\ Len(failedFrames) = 1

\* C39: after terminateWorkerPool returns, the pool handle is null in every
\* case (normal termination, a termination failure, the 5-second timeout);
\* pool.terminate() is called only when every queued task has completed; and
\* the call is a no-op when no pool exists.
C39_TerminateLeavesHandleNull ==
    api.pc = "on" =>
        /\ coordPc = "finished" => workerPool = NullPool
        /\ coordPc = "terminate" => PoolIdle
        /\ (api.lastCall = "terminate" /\ ~api.hadPool) =>
              /\ coordPc = "finished"
              /\ workerPool = NullPool
              /\ poolTerminated = api.terminatedBefore
              /\ taskQueue = api.queueBefore
              /\ Len(jobs) = api.jobsBefore

\* terminateWorkerPool returned without the pool having terminated (timeout
\* or failure) after the pool had run a job, and was then called again with
\* no pool.
C39_Witness ==
    /\ api.pc = "on"
    /\ api.lastCall = "terminate"
    /\ ~api.hadPool
    /\ api.terminates = 2
    /\ api.created = 1
    /\ ~poolTerminated
    /\ \E j \in JobIds : jobs[j].worker # 0 /\ Settled(j)

\* Every job the serial coordinator started has settled.
SerialJobsSettled == serial.loop # "awaiting"

\* Frame extraction has ended: the 'end' handler has run.
SerialExtractionEnded == serial.pc = "on" /\ serial.ffmpegComplete

SerialSignaled == completion # "pending" /\ ~serial.isProcessing

\* C40: in the serial frame-queue coordinator, once frame extraction has
\* ended and every started job has terminated, with success or with a
\* failure, processingComplete eventually settles with isProcessing false: a
\* failing frame job does not leave the queue stuck.  (Stated for the runs
\* whose readdir in the 'end' handler resolves; where it rejects, the handler
\* ends before its processFrameQueue() call whatever the jobs did.)
C40_SerialCompletionSignaled ==
    (SerialExtractionEnded /\ SerialJobsSettled)
        ~> (SerialSignaled \/ serial.readdirFailed)

\* The same, for the runs in which no frame job has failed.
SerialCompletionWithoutFailure ==
    (SerialExtractionEnded /\ SerialJobsSettled /\ serial.jobsFailed = 0)
        ~> (SerialSignaled \/ serial.jobsFailed > 0 \/ serial.readdirFailed)
====
